---------------------------- MODULE Spec2Model ----------------------------
(***************************************************************************)
(* State machine of the ChatConnect chat session engine: the roster, the   *)
(* message log, reactions, the status throttle and the simulated           *)
(* responder of components/ChatApp.tsx and of its sibling build            *)
(* (unnamed/part_000).  Texts and names are sequences of one-character     *)
(* strings so that trim / lower-case / whitespace replacement are computed *)
(* as the code computes them.  Time is in milliseconds.                    *)
(***************************************************************************)
EXTENDS Integers, Sequences, FiniteSets, TLC

(***************************************************************************)
(* Bounds of the exploration.                                              *)
(***************************************************************************)
MaxActive == 300        \* the user-paced clock steps stop MaxActive ms after Epoch
MaxOps == 3             \* logins, sends and status requests that pass their guards
MaxLogoutTimers == 1    \* pending logout timeouts (part_000)
MessagePx == 80         \* laid-out height of a message view without its reaction row
ReactionRowPx == 28     \* laid-out height of the reaction row of a message view
ClientHeightPx == 400   \* height of the chat container
MaxRand == 0            \* Math.floor(Math.random() * 1000) is drawn from 0..MaxRand

(***************************************************************************)
(* Program constants.                                                      *)
(***************************************************************************)
Epoch == 2 * 60000 + 2850       \* Date.now() at mount: minute 2, 150 ms before second 3
NoTime == 0 - 1                 \* an absent optional timestamp (lastSeen)
StatusThrottleMs == 300
LogoutDelayMs == 150
TypingDelayMs == 1000
ReplyDelayMs == 3000
ReactionDelayMs == 1500
LocalTypingMs == 3000            \* ChatInput's typing indicator timeout
SearchDebounceMs == 1000         \* SearchInput's typing timeout (part_000)
AvatarCount == 60
ScrollThresholdPx == 150
EndMarkerPx == 16               \* the h-4 element behind the last message

Builds == {"ChatApp.tsx", "part_000"}

Range(s) == {s[i] : i \in DOMAIN s}

(***************************************************************************)
(* Strings as character sequences.                                         *)
(***************************************************************************)
IsSpace(c) == c \in {" ", "\t"}

UpperToLower ==
  ("A" :> "a") @@ ("B" :> "b") @@ ("C" :> "c") @@ ("D" :> "d") @@ ("E" :> "e") @@
  ("F" :> "f") @@ ("G" :> "g") @@ ("H" :> "h") @@ ("I" :> "i") @@ ("J" :> "j") @@
  ("K" :> "k") @@ ("L" :> "l") @@ ("M" :> "m") @@ ("N" :> "n") @@ ("O" :> "o") @@
  ("P" :> "p") @@ ("Q" :> "q") @@ ("R" :> "r") @@ ("S" :> "s") @@ ("T" :> "t") @@
  ("U" :> "u") @@ ("V" :> "v") @@ ("W" :> "w") @@ ("X" :> "x") @@ ("Y" :> "y") @@
  ("Z" :> "z")

\* String.prototype.toLowerCase
ToLowerCase(s) ==
  [i \in DOMAIN s |-> IF s[i] \in DOMAIN UpperToLower THEN UpperToLower[s[i]] ELSE s[i]]

\* String.prototype.trim
Trim(s) ==
  LET keep == {i \in DOMAIN s : ~IsSpace(s[i])}
  IN  IF keep = {} THEN << >>
      ELSE LET lo == CHOOSE i \in keep : \A j \in keep : i <= j
               hi == CHOOSE i \in keep : \A j \in keep : j <= i
           IN  SubSeq(s, lo, hi)

\* s.replace(/\s+/g, "-"): every maximal run of whitespace becomes one "-"
RECURSIVE ReplaceSpaceRuns(_)
ReplaceSpaceRuns(s) ==
  IF s = << >> THEN << >>
  ELSE IF IsSpace(Head(s))
       THEN IF Len(s) > 1 /\ IsSpace(s[2])
            THEN ReplaceSpaceRuns(Tail(s))
            ELSE <<"-">> \o ReplaceSpaceRuns(Tail(s))
       ELSE <<Head(s)>> \o ReplaceSpaceRuns(Tail(s))

(***************************************************************************)
(* Identifiers.  `user-${normalized}-${Date.now()}` is the record          *)
(* [tag "user", n, t]; `msg-${Date.now()}-${random}` is [tag "msg", t, r]; *)
(* `msg-response-${Date.now()}` is [tag "msg-response", t, 0]; the seeded  *)
(* ids "user1".."user5", "msg1".."msg8" carry their literal as the tag.    *)
(***************************************************************************)
SeedUserId(lit) == [tag |-> lit, n |-> << >>, t |-> 0]
LoginUserId(name, t) == [tag |-> "user", n |-> ReplaceSpaceRuns(ToLowerCase(name)), t |-> t]
NoId == [tag |-> "null", n |-> << >>, t |-> 0]

SeedMsgId(lit) == [tag |-> lit, t |-> 0, r |-> 0]
SendMsgId(t, r) == [tag |-> "msg", t |-> t, r |-> r]
ResponseMsgId(t) == [tag |-> "msg-response", t |-> t, r |-> 0]
NoMsgId == [tag |-> "null", t |-> 0, r |-> 0]

NoReactions == [u \in {} |-> ""]

\* currentUser === null
NoUser == [id |-> NoId, name |-> << >>, avatar |-> [dir |-> "men", n |-> 0],
           status |-> "null", lastSeen |-> NoTime, isTyping |-> FALSE]

emojis == <<"thumbsup", "heart", "joy", "open_mouth", "cry", "rage">>

Statuses == {"online", "brb", "busy"}

mockUsers ==
  << [id |-> SeedUserId("user1"), name |-> <<"A","l","e","x"," ","J","o","h","n","s","o","n">>,
       avatar |-> [dir |-> "men", n |-> 32], status |-> "online",
       lastSeen |-> NoTime, isTyping |-> FALSE],
     [id |-> SeedUserId("user2"), name |-> <<"S","a","m","a","n","t","h","a"," ","L","e","e">>,
       avatar |-> [dir |-> "women", n |-> 44], status |-> "online",
       lastSeen |-> NoTime, isTyping |-> FALSE],
     [id |-> SeedUserId("user3"), name |-> <<"M","i","c","h","a","e","l"," ","C","h","e","n">>,
       avatar |-> [dir |-> "men", n |-> 59], status |-> "brb",
       lastSeen |-> NoTime, isTyping |-> FALSE],
     [id |-> SeedUserId("user4"), name |-> <<"J","e","s","s","i","c","a"," ","T","a","y","l","o","r">>,
       avatar |-> [dir |-> "women", n |-> 16], status |-> "busy",
       lastSeen |-> NoTime, isTyping |-> FALSE],
     [id |-> SeedUserId("user5"), name |-> <<"D","a","v","i","d"," ","W","i","l","s","o","n">>,
       avatar |-> [dir |-> "men", n |-> 7], status |-> "offline",
       lastSeen |-> Epoch - 3600000, isTyping |-> FALSE] >>

mockMessages ==
  << [id |-> SeedMsgId("msg1"), senderId |-> SeedUserId("user1"),
       text |-> <<"H","e","y"," ","e","v","e","r","y","o","n","e","!"," ","H","o","w","'","s"," ","i","t"," ","g","o","i","n","g","?">>,
       timestamp |-> Epoch - 10800000,
       reactions |-> (SeedUserId("user2") :> "thumbsup") @@ (SeedUserId("user4") :> "heart"), status |-> "sent"],
     [id |-> SeedMsgId("msg2"), senderId |-> SeedUserId("user2"),
       text |-> <<"P","r","e","t","t","y"," ","g","o","o","d","!"," ","W","o","r","k","i","n","g"," ","o","n"," ","t","h","a","t"," ","n","e","w"," ","p","r","o","j","e","c","t","."," ","W","h","a","t"," ","a","b","o","u","t"," ","y","o","u","?">>,
       timestamp |-> Epoch - 9000000,
       reactions |-> NoReactions, status |-> "sent"],
     [id |-> SeedMsgId("msg3"), senderId |-> SeedUserId("user3"),
       text |-> <<"I","'","m"," ","j","u","s","t"," ","t","a","k","i","n","g"," ","a"," ","q","u","i","c","k"," ","b","r","e","a","k","."," ","b","r","b"," ","i","n"," ","1","0"," ","m","i","n","u","t","e","s","!">>,
       timestamp |-> Epoch - 7200000,
       reactions |-> (SeedUserId("user1") :> "thumbsup"), status |-> "sent"],
     [id |-> SeedMsgId("msg4"), senderId |-> SeedUserId("user1"),
       text |-> <<"N","o"," ","w","o","r","r","i","e","s",","," ","t","a","k","e"," ","y","o","u","r"," ","t","i","m","e","!">>,
       timestamp |-> Epoch - 6480000,
       reactions |-> NoReactions, status |-> "sent"],
     [id |-> SeedMsgId("msg5"), senderId |-> SeedUserId("user4"),
       text |-> <<"H","e","y"," ","c","a","n"," ","s","o","m","e","o","n","e"," ","h","e","l","p"," ","m","e"," ","w","i","t","h"," ","t","h","e"," ","n","e","w"," ","A","P","I"," ","d","o","c","u","m","e","n","t","a","t","i","o","n","?">>,
       timestamp |-> Epoch - 5400000,
       reactions |-> NoReactions, status |-> "sent"],
     [id |-> SeedMsgId("msg6"), senderId |-> SeedUserId("user2"),
       text |-> <<"I"," ","c","a","n"," ","h","e","l","p","!"," ","G","i","v","e"," ","m","e"," ","a"," ","s","e","c"," ","t","o"," ","f","i","n","d"," ","m","y"," ","n","o","t","e","s",".">>,
       timestamp |-> Epoch - 4320000,
       reactions |-> (SeedUserId("user4") :> "pray"), status |-> "sent"],
     [id |-> SeedMsgId("msg7"), senderId |-> SeedUserId("user1"),
       text |-> <<"H","a","s"," ","a","n","y","o","n","e"," ","s","e","e","n"," ","t","h","e"," ","l","a","t","e","s","t"," ","d","e","p","l","o","y","m","e","n","t","?"," ","L","o","o","k","s"," ","l","i","k","e"," ","t","h","e","r","e"," ","m","i","g","h","t"," ","b","e"," ","a","n"," ","i","s","s","u","e"," ","w","i","t","h"," ","t","h","e"," ","a","u","t","h","e","n","t","i","c","a","t","i","o","n"," ","m","o","d","u","l","e",".">>,
       timestamp |-> Epoch - 3600000,
       reactions |-> (SeedUserId("user2") :> "open_mouth"), status |-> "sent"],
     [id |-> SeedMsgId("msg8"), senderId |-> SeedUserId("user4"),
       text |-> <<"I","'","m"," ","c","h","e","c","k","i","n","g"," ","i","t"," ","n","o","w","."," ","W","i","l","l"," ","u","p","d","a","t","e"," ","e","v","e","r","y","o","n","e"," ","i","n"," ","a"," ","f","e","w"," ","m","i","n","u","t","e","s"," ","w","h","e","n"," ","I"," ","k","n","o","w"," ","m","o","r","e",".">>,
       timestamp |-> Epoch - 1800000,
       reactions |-> (SeedUserId("user1") :> "thumbsup") @@ (SeedUserId("user2") :> "thumbsup"), status |-> "sent"] >>

responses ==
  << <<"T","h","a","t","'","s"," ","i","n","t","e","r","e","s","t","i","n","g","!"," ","T","e","l","l"," ","m","e"," ","m","o","r","e",".">>,
     <<"I"," ","a","g","r","e","e"," ","w","i","t","h"," ","y","o","u","r"," ","p","o","i","n","t",".">>,
     <<"I","'","m"," ","n","o","t"," ","s","u","r","e"," ","I"," ","f","o","l","l","o","w","."," ","C","a","n"," ","y","o","u"," ","e","x","p","l","a","i","n","?">>,
     <<"G","r","e","a","t"," ","i","d","e","a","!">>,
     <<"L","e","t","'","s"," ","d","i","s","c","u","s","s"," ","t","h","i","s"," ","f","u","r","t","h","e","r"," ","i","n"," ","t","h","e"," ","m","e","e","t","i","n","g"," ","t","o","m","o","r","r","o","w",".">>,
     <<"I","'","l","l"," ","c","h","e","c","k"," ","w","i","t","h"," ","t","h","e"," ","t","e","a","m"," ","a","n","d"," ","g","e","t"," ","b","a","c","k"," ","t","o"," ","y","o","u",".">>,
     <<"T","h","a","n","k","s"," ","f","o","r"," ","t","h","e"," ","u","p","d","a","t","e","!">>,
     <<"C","o","u","l","d"," ","y","o","u"," ","s","h","a","r","e"," ","t","h","e"," ","d","o","c","u","m","e","n","t","a","t","i","o","n","?">> >>


(***************************************************************************)
(* Inputs of the user-facing handlers.                                     *)
(***************************************************************************)
LoginNames == { << >>, <<" ", " ">>, <<" ","A","l"," "," ","B"," ">> }

SendTexts == { << >>, <<" ", " ", " ">>, <<" ","H","e","l","p"," ">> }

Rands == 0 .. MaxRand

\* the clock is sampled twice per throttle window
TickStep == StatusThrottleMs \div 2

VARIABLES
  build,                \* which of the two builds of the component runs
  now,                  \* Date.now()
  currentUser,          \* useState<User | null>
  users,                \* useState<User[]>
  messages,             \* useState<Message[]>
  showLoginModal,       \* useState(true)
  lastStatusUpdateRef,  \* useRef<number>(0)
  statusAnimationRef,   \* useRef<number | null>(null); 0 is null
  frames,               \* pending requestAnimationFrame callbacks, in request order
  timers,               \* pending setTimeout callbacks, in registration order
  localReactions,       \* MessageComponent's useState(initialMessage.reactions), per log position
  shouldAutoScroll,     \* useState(true): the viewport is at the bottom
  showScrollToBottom,   \* useState(false): the jump-to-bottom affordance
  scrollTop,            \* chatContainer.scrollTop
  scrollRequested,      \* a requestAnimationFrame callback of scrollToBottom is pending
  searchResults,        \* useState<Message[]>([]) (part_000)
  currentSearchIndex,   \* useState(-1) (part_000)
  localIsTyping,        \* ChatInput's useState(false)
  localTypingTimeoutRef,\* ChatInput's useRef(null): the due time of its timeout, 0 is null
  unmountedTimeouts,    \* due times of the pending typing timeouts of unmounted ChatInputs
  localSearchQuery,     \* SearchInput's useState("") (part_000)
  typingTimeoutRef,     \* SearchInput's useRef(null): its pending timeout (part_000)
  measured,             \* history: the distance from the bottom the scroll listener
                        \* measured in the step, -1 when it did not run
  statusChanges,        \* history: how many status requests passed the throttle
  earlyReturns,         \* history of the throttle session: why status requests returned early
                        \* since the last one that passed, and between the last two that passed
  loggedOut,            \* history: handleLogout was called since the last login, or no login yet
  last                  \* history: the handler call or callback of the last step

vars == << build, now, currentUser, users, messages, showLoginModal,
           lastStatusUpdateRef, statusAnimationRef, frames,
           timers, localReactions, shouldAutoScroll, showScrollToBottom, scrollTop,
           scrollRequested, searchResults, currentSearchIndex,
           localIsTyping, localTypingTimeoutRef, unmountedTimeouts,
           localSearchQuery, typingTimeoutRef,
           measured, statusChanges, earlyReturns, loggedOut, last >>

\* Date.prototype.getSeconds / getMinutes
Seconds(t) == (t \div 1000) % 60
Minutes(t) == (t \div 60000) % 60

\* every render of ChatApp re-creates the MessageComponent type, so each
\* message view is mounted afresh with the reactions of the log
Rendered(msgs) == [i \in DOMAIN msgs |-> msgs[i].reactions]

(***************************************************************************)
(* The viewport: the chat container the handlers measure.  Heights are in  *)
(* px; a message view is MessagePx high, ReactionRowPx more when it shows  *)
(* reactions.                                                              *)
(***************************************************************************)
Min(a, b) == IF a <= b THEN a ELSE b
Max(a, b) == IF a >= b THEN a ELSE b

\* the reaction row is rendered when Object.keys(localReactions).length > 0
ViewHeight(reactions) ==
  MessagePx + (IF DOMAIN reactions # {} THEN ReactionRowPx ELSE 0)

RECURSIVE HeightOfFirst(_, _)
HeightOfFirst(local, n) ==
  IF n = 0 THEN 0 ELSE HeightOfFirst(local, n - 1) + ViewHeight(local[n])

\* chatContainer.scrollHeight
ScrollHeight(local) == HeightOfFirst(local, Len(local)) + EndMarkerPx

\* the largest scrollTop: scrollHeight - clientHeight
ScrollMax(local) == Max(0, ScrollHeight(local) - ClientHeightPx)

\* the browser keeps scrollTop within the content
ClampTop(top, local) == Max(0, Min(top, ScrollMax(local)))

\* variant: the threshold itself counts as the bottom
IsAtBottom_Inclusive(top, local) ==
  ScrollHeight(local) - top - ClientHeightPx <= ScrollThresholdPx

\* handleScroll: scrollHeight - scrollTop - clientHeight < 150
IsAtBottom(top, local) == ScrollHeight(local) - top - ClientHeightPx < ScrollThresholdPx

\* scrollIntoView({ block: "center" }) on the view of the message at position k
CenterTop(k, local) ==
  ClampTop(HeightOfFirst(local, k - 1) + (ViewHeight(local[k]) \div 2)
             - (ClientHeightPx \div 2), local)

\* SearchInput's typingTimeoutRef: the due time of the pending timeout and the
\* localSearchQuery of the render whose handleTyping registered it; due 0 is null
NoTimeout == [due |-> 0, query |-> << >>]

\* the local state of the two input components
inputs == << localIsTyping, localTypingTimeoutRef, unmountedTimeouts,
             localSearchQuery, typingTimeoutRef >>

\* ChatInput and SearchInput are created by memo(...) in the body of ChatApp,
\* so every render of ChatApp mounts them afresh: their state is the initial
\* one again.  SearchInput's unmount effect clears its timeout; ChatInput has
\* no such effect, so a timeout its ref holds (pending) stays pending
Remounted(pending) ==
  /\ localIsTyping' = FALSE
  /\ localTypingTimeoutRef' = 0
  /\ unmountedTimeouts' = unmountedTimeouts \cup (IF pending # 0 THEN {pending} ELSE {})
  /\ localSearchQuery' = << >>
  /\ typingTimeoutRef' = NoTimeout

\* what a handler or callback leaves of the input components: rendered tells
\* whether it made ChatApp render
Inputs(rendered) ==
  IF rendered THEN Remounted(localTypingTimeoutRef) ELSE UNCHANGED inputs

\* the due times of the pending timeouts of the input components
InputDues ==
  unmountedTimeouts
    \cup (IF localTypingTimeoutRef # 0 THEN {localTypingTimeoutRef} ELSE {})
    \cup (IF typingTimeoutRef # NoTimeout THEN {typingTimeoutRef.due} ELSE {})

\* handleScroll: the flags it sets for a position
handleScroll(top, local, msgs) ==
  [auto |-> IsAtBottom(top, local),
   show |-> ~IsAtBottom(top, local) /\ Len(msgs) > 0]

\* the scroll listener runs when the position moved; this is the case where
\* the layout after a handler leaves the position beyond the content
ScrollListener(moved) ==
  IF moved
  THEN /\ shouldAutoScroll' = handleScroll(scrollTop', localReactions', messages').auto
       /\ showScrollToBottom' = handleScroll(scrollTop', localReactions', messages').show
       /\ measured' = ScrollHeight(localReactions') - scrollTop' - ClientHeightPx
  ELSE /\ UNCHANGED << shouldAutoScroll, showScrollToBottom >>
       /\ measured' = 0 - 1

\* the container moves to target: the listener sets the flags, ChatApp renders
\* when a flag changed (the message views are mounted again and show the
\* reactions of the log), and the new layout bounds the position
ScrollTo(target, passesAbove) ==
  LET first == handleScroll(target, localReactions, messages)
      renders == passesAbove
                   \/ first.auto # shouldAutoScroll \/ first.show # showScrollToBottom
      local == IF renders THEN Rendered(messages) ELSE localReactions
      top == ClampTop(target, local)
      final == IF top # target THEN handleScroll(top, local, messages) ELSE first
  IN /\ localReactions' = local
     /\ Inputs(renders)
     /\ scrollTop' = top
     /\ shouldAutoScroll' = final.auto
     /\ showScrollToBottom' = final.show
     /\ measured' = IF top # target
                    THEN ScrollHeight(local) - top - ClientHeightPx
                    ELSE ScrollHeight(localReactions) - target - ClientHeightPx


\* the record of a handler call or callback: its arguments, and what it
\* raised; no handler of the component throws or returns a value, so raised
\* is "none" throughout.  For a click on a reaction: before is the view's
\* reactions when the click was made, twice tells that the step before was
\* the same click, and first is that earlier click's before.  For a status
\* request: cancelled is the frame handle it cancelled, 0 for none.  For a
\* scroll event: distance is the distance from the bottom it reports.  For a
\* search or a navigation: prior is the cursor before it; steps counts the
\* navigations in one direction since the last other call, at most one round
\* of the results, and start is the cursor before the first of them.  For a
\* jump to the bottom: shown is the affordance flag before it.  For a callback
\* of simulateResponse: uid is its candidate and since the clock value of the
\* send that started its cycle
Call(op) == [op |-> op, name |-> << >>, text |-> << >>, status |-> "null",
             idx |-> 0, emoji |-> "null", raised |-> "none",
             before |-> NoReactions, twice |-> FALSE, first |-> NoReactions,
             cancelled |-> 0, query |-> << >>, direction |-> "null", distance |-> 0,
             prior |-> 0, steps |-> 0, start |-> 0, shown |-> FALSE,
             uid |-> NoId, since |-> 0]

LoginCount == Cardinality({i \in DOMAIN users : users[i].id.tag = "user"})
SendCount == Cardinality({i \in DOMAIN messages : messages[i].id.tag = "msg"})
OpsDone == LoginCount + SendCount + statusChanges

\* the user acts during the first MaxActive ms; timeouts and frame callbacks
\* run on after that
UserActive == now <= Epoch + MaxActive

\* the state after the mount effect, for the seeded roster given
InitWith(roster) ==
  /\ build \in Builds
  /\ now = Epoch
  /\ currentUser = NoUser
  /\ users = roster
  /\ messages = mockMessages
  /\ showLoginModal = TRUE
  /\ lastStatusUpdateRef = 0
  /\ statusAnimationRef = 0
  /\ frames = << >>
  /\ timers = << >>
  /\ localReactions = Rendered(mockMessages)
  /\ shouldAutoScroll = TRUE
  /\ showScrollToBottom = FALSE
  /\ scrollTop = ScrollMax(Rendered(mockMessages))
  /\ scrollRequested = FALSE
  /\ searchResults = << >>
  /\ currentSearchIndex = 0 - 1
  /\ localIsTyping = FALSE
  /\ localTypingTimeoutRef = 0
  /\ unmountedTimeouts = {}
  /\ localSearchQuery = << >>
  /\ typingTimeoutRef = NoTimeout
  /\ measured = 0 - 1
  /\ statusChanges = 0
  /\ earlyReturns = [since |-> {}, before |-> {}]
  /\ loggedOut = TRUE
  /\ last = Call("mount")

Init == InitWith(mockUsers)

(***************************************************************************)
(* Roster Store: login, logout.                                            *)
(***************************************************************************)
\* variant: the name is tested without trim()
LoginAccepts_NoTrim(name) == name # << >>

\* LoginInput.handleLogin: if (localLoginName.trim())
LoginAccepts(name) == Trim(name) # << >>

\* variant: the participant is created offline
NewUser_Offline(name, t) ==
  [id |-> LoginUserId(name, t), name |-> name,
   avatar |-> [dir |-> "men", n |-> Len(name) % AvatarCount],
   status |-> "offline", lastSeen |-> NoTime, isTyping |-> FALSE]

\* handleLoginSubmit: the new User record
NewUser(name, t) ==
  [id |-> LoginUserId(name, t), name |-> name,
   avatar |-> [dir |-> "men", n |-> Len(name) % AvatarCount],
   status |-> "online", lastSeen |-> NoTime, isTyping |-> FALSE]

\* LoginInput.handleLogin calling handleLoginSubmit(localLoginName.trim());
\* LoginInput is rendered inside the login modal only
Login(name) ==
  /\ UserActive
  /\ showLoginModal
  /\ IF LoginAccepts(name)
     THEN /\ OpsDone < MaxOps
          /\ currentUser' = NewUser(Trim(name), now)
          /\ users' = Append(users, NewUser(Trim(name), now))
          /\ showLoginModal' = FALSE
          /\ localReactions' = Rendered(messages)
          /\ loggedOut' = FALSE
     ELSE UNCHANGED << currentUser, users, showLoginModal, localReactions, loggedOut >>
  /\ last' = [Call("login") EXCEPT !.name = name]
  /\ UNCHANGED << statusChanges, earlyReturns, build, now, messages, lastStatusUpdateRef,
                  statusAnimationRef, frames, timers >>
  /\ scrollTop' = ClampTop(scrollTop, localReactions')
  /\ ScrollListener(scrollTop' # scrollTop)
  /\ UNCHANGED << scrollRequested, searchResults, currentSearchIndex >>
  /\ Inputs(LoginAccepts(name))

\* a pending timeout: for those of simulateResponse, uid is the candidate, sent
\* the clock value of the call, count and cu the messages.length and the
\* currentUser.id of the render that created it
Timer(kind, due) ==
  [kind |-> kind, due |-> due, uid |-> NoId, count |-> 0, cu |-> NoId, sent |-> 0]

\* variant: logging out also drops the participant's record from the roster
Logout_RemovesRecord ==
  /\ UserActive
  /\ build = "ChatApp.tsx"
  /\ currentUser' = NoUser
  /\ showLoginModal' = TRUE
  /\ users' = SelectSeq(users, LAMBDA u : u.id # currentUser.id)
  /\ localReactions' = Rendered(messages)
  /\ loggedOut' = TRUE
  /\ last' = Call("logout")
  /\ UNCHANGED << statusChanges, earlyReturns, build, now, messages, lastStatusUpdateRef,
                  statusAnimationRef, frames, timers >>
  /\ scrollTop' = ClampTop(scrollTop, localReactions')
  /\ ScrollListener(scrollTop' # scrollTop)
  /\ UNCHANGED << scrollRequested, searchResults, currentSearchIndex >>
  /\ Inputs(TRUE)

\* handleLogout, the logout button of the settings modal.  ChatApp.tsx
\* clears the session at once; part_000 closes the modal and clears the
\* session from a 150 ms timeout
Logout ==
  /\ UserActive
  /\ IF build = "ChatApp.tsx"
     THEN /\ currentUser' = NoUser
          /\ showLoginModal' = TRUE
          /\ UNCHANGED timers
     ELSE /\ Cardinality({i \in DOMAIN timers : timers[i].kind = "logout"}) < MaxLogoutTimers
          /\ timers' = Append(timers, Timer("logout", now + LogoutDelayMs))
          /\ UNCHANGED << currentUser, showLoginModal >>
  /\ localReactions' = Rendered(messages)
  /\ loggedOut' = TRUE
  /\ last' = Call("logout")
  /\ UNCHANGED << statusChanges, earlyReturns, build, now, users, messages, lastStatusUpdateRef,
                  statusAnimationRef, frames >>
  /\ scrollTop' = ClampTop(scrollTop, localReactions')
  /\ ScrollListener(scrollTop' # scrollTop)
  /\ UNCHANGED << scrollRequested, searchResults, currentSearchIndex >>
  /\ Inputs(TRUE)

(***************************************************************************)
(* Message Store: reactions.                                               *)
(***************************************************************************)
\* variant: the toggle never deletes an entry
ToggleReaction_NeverRemoves(reactions, uid, emoji) ==
  [u \in DOMAIN reactions \cup {uid} |-> IF u = uid THEN emoji ELSE reactions[u]]

\* the toggle on one reactions object: delete the participant's entry when
\* it already holds this emoji, otherwise set or replace it
ToggleReaction(reactions, uid, emoji) ==
  IF uid \in DOMAIN reactions /\ reactions[uid] = emoji
  THEN [u \in DOMAIN reactions \ {uid} |-> reactions[u]]
  ELSE [u \in DOMAIN reactions \cup {uid} |-> IF u = uid THEN emoji ELSE reactions[u]]

\* the updater handed to setMessages by handleEmojiReaction
ReactionUpdater(prevMessages, uid, messageId, emoji) ==
  [i \in DOMAIN prevMessages |->
     IF prevMessages[i].id = messageId
     THEN [prevMessages[i] EXCEPT !.reactions = ToggleReaction(@, uid, emoji)]
     ELSE prevMessages[i]]

\* variant: the handler's currentUser is a participant the roster does not hold
EmojiReactionCurrentUser_Stranger == [NoUser EXCEPT !.id = SeedUserId("user9")]

\* handleEmojiReaction is memoised with an empty dependency list: the
\* currentUser it reads is the one of the first render, useState(null)
EmojiReactionCurrentUser == NoUser

\* variant: the handler takes the message out of the log
handleEmojiReaction_DropsMessage(prevMessages, messageId, emoji) ==
  SelectSeq(prevMessages, LAMBDA m : m.id # messageId)

\* handleEmojiReaction: the log it leaves behind
handleEmojiReaction(prevMessages, messageId, emoji) ==
  IF EmojiReactionCurrentUser = NoUser
  THEN prevMessages
  ELSE ReactionUpdater(prevMessages, EmojiReactionCurrentUser.id, messageId, emoji)

\* variant: the click handler does not test currentUser
EmojiClickAccepts_Always(cu) == TRUE

\* MessageComponent.handleEmojiClick: if (!currentUser) return
EmojiClickAccepts(cu) == cu # NoUser

\* the message view and picker entries that get clicked: the first message
\* (it carries reactions of two other participants)
ClickPositions == {1}
ClickEmojis == {"thumbsup", "heart"}

\* MessageComponent.handleEmojiClick on the message at position idx
EmojiClick(idx, emoji) ==
  /\ UserActive
  /\ idx \in DOMAIN messages
  /\ emoji \in Range(emojis)
  /\ IF EmojiClickAccepts(currentUser)
     THEN /\ localReactions' =
               [localReactions EXCEPT ![idx] = ToggleReaction(@, currentUser.id, emoji)]
          /\ messages' = handleEmojiReaction(messages, messages[idx].id, emoji)
     ELSE UNCHANGED << localReactions, messages >>
  /\ last' = [Call("react") EXCEPT
                !.idx = idx, !.emoji = emoji, !.before = localReactions[idx],
                !.twice = (last.op = "react" /\ last.idx = idx /\ last.emoji = emoji),
                !.first = IF last.op = "react" /\ last.idx = idx /\ last.emoji = emoji
                          THEN last.before ELSE NoReactions]
  /\ UNCHANGED << loggedOut, statusChanges, earlyReturns, build, now, currentUser, users, showLoginModal, lastStatusUpdateRef, statusAnimationRef, frames,
                  timers >>
  /\ scrollTop' = ClampTop(scrollTop, localReactions')
  /\ ScrollListener(scrollTop' # scrollTop)
  /\ UNCHANGED << scrollRequested, searchResults, currentSearchIndex >>
  /\ Inputs(FALSE)

(***************************************************************************)
(* Roster Store: typing flag and status.                                   *)
(***************************************************************************)
\* variant: the flag is set, never cleared
updateUserTypingStatus_OnlySets(prevUsers, userId, isTyping) ==
  [i \in DOMAIN prevUsers |->
     IF prevUsers[i].id = userId /\ isTyping
     THEN [prevUsers[i] EXCEPT !.isTyping = TRUE]
     ELSE prevUsers[i]]

\* updateUserTypingStatus
updateUserTypingStatus(prevUsers, userId, isTyping) ==
  [i \in DOMAIN prevUsers |->
     IF prevUsers[i].id = userId
     THEN [prevUsers[i] EXCEPT !.isTyping = isTyping]
     ELSE prevUsers[i]]

\* changeUserStatus: if (!currentUser || currentUser.status === status) return
StatusRequestApplies(cu, status) == cu # NoUser /\ cu.status # status

\* variant: the window is closed at both ends
Throttled_Inclusive(t, lastUpdate) == t - lastUpdate <= StatusThrottleMs

\* changeUserStatus: if (now - lastStatusUpdateRef.current < 300) return
Throttled(t, lastUpdate) == t - lastUpdate < StatusThrottleMs

\* variant: the pending frame is not cancelled
cancelAnimationFrame_Noop(pending, handle) == pending

\* cancelAnimationFrame(handle)
cancelAnimationFrame(pending, handle) ==
  SelectSeq(pending, LAMBDA f : f.id # handle)

\* requestAnimationFrame's return value: a handle no pending callback has
NewHandle(pending) ==
  1 + (IF pending = << >> THEN 0
       ELSE CHOOSE n \in {f.id : f \in Range(pending)} :
              \A f \in Range(pending) : f.id <= n)

\* variant: a request that returns early restarts the throttle window
changeUserStatus_RestartsWindow(status) ==
  /\ UserActive
  /\ IF StatusRequestApplies(currentUser, status) /\ ~Throttled(now, lastStatusUpdateRef)
     THEN /\ OpsDone < MaxOps
          /\ statusChanges' = statusChanges + 1
          /\ lastStatusUpdateRef' = now
          /\ frames' = Append(IF statusAnimationRef # 0
                              THEN cancelAnimationFrame(frames, statusAnimationRef)
                              ELSE frames,
                              [id |-> NewHandle(frames), status |-> status,
                               uid |-> currentUser.id])
          /\ statusAnimationRef' = NewHandle(frames)
          /\ last' = [Call("setStatus") EXCEPT !.status = status,
                                               !.cancelled = statusAnimationRef]
     ELSE /\ UNCHANGED << frames, statusAnimationRef, statusChanges >>
          /\ lastStatusUpdateRef' = now
          /\ last' = [Call("setStatus") EXCEPT !.status = status]
  /\ UNCHANGED << loggedOut, build, now, currentUser, users, messages, showLoginModal,
                  timers, localReactions >>
  /\ scrollTop' = ClampTop(scrollTop, localReactions')
  /\ ScrollListener(scrollTop' # scrollTop)
  /\ UNCHANGED << scrollRequested, searchResults, currentSearchIndex >>
  /\ Inputs(FALSE)

changeUserStatus(status) ==
  /\ UserActive
  /\ IF StatusRequestApplies(currentUser, status) /\ ~Throttled(now, lastStatusUpdateRef)
     THEN /\ OpsDone < MaxOps
          /\ statusChanges' = statusChanges + 1
          /\ lastStatusUpdateRef' = now
          /\ frames' = Append(IF statusAnimationRef # 0
                              THEN cancelAnimationFrame(frames, statusAnimationRef)
                              ELSE frames,
                              [id |-> NewHandle(frames), status |-> status,
                               uid |-> currentUser.id])
          /\ statusAnimationRef' = NewHandle(frames)
          /\ last' = [Call("setStatus") EXCEPT !.status = status,
                                               !.cancelled = statusAnimationRef]
     ELSE /\ UNCHANGED << lastStatusUpdateRef, frames, statusAnimationRef, statusChanges >>
          /\ last' = [Call("setStatus") EXCEPT !.status = status]
  /\ UNCHANGED << loggedOut, build, now, currentUser, users, messages, showLoginModal,
                  timers, localReactions >>
  /\ scrollTop' = ClampTop(scrollTop, localReactions')
  /\ ScrollListener(scrollTop' # scrollTop)
  /\ UNCHANGED << scrollRequested, searchResults, currentSearchIndex >>
  /\ Inputs(FALSE)

\* the requestAnimationFrame callback of changeUserStatus; the browser runs
\* pending frame callbacks in request order
StatusFrame ==
  /\ frames # << >>
  /\ LET f == Head(frames)
     IN  /\ currentUser' = IF currentUser = NoUser THEN NoUser
                           ELSE [currentUser EXCEPT !.status = f.status]
         /\ users' = [i \in DOMAIN users |->
                        IF users[i].id = f.uid
                        THEN [users[i] EXCEPT !.status = f.status]
                        ELSE users[i]]
         /\ last' = [Call("statusFrame") EXCEPT !.status = f.status]
  /\ frames' = Tail(frames)
  /\ statusAnimationRef' = 0
  /\ localReactions' = Rendered(messages)
  /\ UNCHANGED << loggedOut, statusChanges, earlyReturns, build, now, messages, showLoginModal, lastStatusUpdateRef, timers >>
  /\ scrollTop' = ClampTop(scrollTop, localReactions')
  /\ ScrollListener(scrollTop' # scrollTop)
  /\ UNCHANGED << scrollRequested, searchResults, currentSearchIndex >>
  /\ Inputs(TRUE)

(***************************************************************************)
(* Message Store: send, and the Response Simulator it triggers.            *)
(***************************************************************************)
\* variant: the text is tested without trim()
SendAccepts_NoTrim(text, cu) == text # << >> /\ cu # NoUser

\* ChatInput.handleSendMessage: if (localInputMessage.trim() && currentUser),
\* then handleSendMessage: if (!currentUser || !isMounted) return
SendAccepts(text, cu) == Trim(text) # << >> /\ cu # NoUser

\* variant: the message stores the trimmed text
NewMessage_TrimsText(id, senderId, text, t) ==
  [id |-> id, senderId |-> senderId, text |-> Trim(text), timestamp |-> t,
   reactions |-> NoReactions, status |-> "sent"]

\* handleSendMessage: the new Message record
NewMessage(id, senderId, text, t) ==
  [id |-> id, senderId |-> senderId, text |-> text, timestamp |-> t,
   reactions |-> NoReactions, status |-> "sent"]

\* variant: every send is answered
ShouldRespond_Always(t) == TRUE

\* simulateResponse: const shouldRespond = new Date().getSeconds() % 3 === 0
ShouldRespond(t) == Seconds(t) % 3 = 0

\* simulateResponse: users.filter(id !== currentUser.id && status === "online")
RespondingUsers(us, cu) ==
  SelectSeq(us, LAMBDA u : u.id # cu.id /\ u.status = "online")

\* variant: the first candidate always answers
RespondingUser_First(us, cu, t) == RespondingUsers(us, cu)[1]

\* simulateResponse: respondingUsers[new Date().getMinutes() % respondingUsers.length]
RespondingUser(us, cu, t) ==
  RespondingUsers(us, cu)[(Minutes(t) % Len(RespondingUsers(us, cu))) + 1]

\* variant: the reply timeout is registered twice
simulateResponse_TwoReplies(cu, us, msgs, t) ==
  IF cu = NoUser \/ ~ShouldRespond(t) \/ RespondingUsers(us, cu) = << >>
  THEN << >>
  ELSE << [Timer("typing", t + TypingDelayMs) EXCEPT !.uid = RespondingUser(us, cu, t).id,
                                                     !.sent = t],
          [Timer("reply", t + ReplyDelayMs) EXCEPT !.uid = RespondingUser(us, cu, t).id,
                                                   !.count = Len(msgs), !.cu = cu.id,
                                                   !.sent = t],
          [Timer("reply", t + ReplyDelayMs) EXCEPT !.uid = RespondingUser(us, cu, t).id,
                                                   !.count = Len(msgs), !.cu = cu.id,
                                                   !.sent = t] >>

\* variant: only the typing timeout is registered
simulateResponse_TypingOnly(cu, us, msgs, t) ==
  IF cu = NoUser \/ ~ShouldRespond(t) \/ RespondingUsers(us, cu) = << >>
  THEN << >>
  ELSE << [Timer("typing", t + TypingDelayMs) EXCEPT !.uid = RespondingUser(us, cu, t).id,
                                                     !.sent = t] >>

\* variant: the typing timeout is registered with the delay of the reaction
simulateResponse_TypingLate(cu, us, msgs, t) ==
  IF cu = NoUser \/ ~ShouldRespond(t) \/ RespondingUsers(us, cu) = << >>
  THEN << >>
  ELSE << [Timer("typing", t + ReplyDelayMs + ReactionDelayMs) EXCEPT
             !.uid = RespondingUser(us, cu, t).id, !.sent = t],
          [Timer("reply", t + ReplyDelayMs) EXCEPT !.uid = RespondingUser(us, cu, t).id,
                                                   !.count = Len(msgs), !.cu = cu.id,
                                                   !.sent = t] >>

\* simulateResponse called at time t with the currentUser, users and messages
\* of the render that created it: the timeouts it registers
simulateResponse(cu, us, msgs, t) ==
  IF cu = NoUser \/ ~ShouldRespond(t) \/ RespondingUsers(us, cu) = << >>
  THEN << >>
  ELSE << [Timer("typing", t + TypingDelayMs) EXCEPT !.uid = RespondingUser(us, cu, t).id,
                                                     !.sent = t],
          [Timer("reply", t + ReplyDelayMs) EXCEPT !.uid = RespondingUser(us, cu, t).id,
                                                   !.count = Len(msgs), !.cu = cu.id,
                                                   !.sent = t] >>

Send(text, r) ==
  /\ UserActive
  /\ IF SendAccepts(text, currentUser)
     THEN /\ OpsDone < MaxOps
          /\ messages' = Append(messages,
                                NewMessage(SendMsgId(now, r), currentUser.id, text, now))
          /\ users' = updateUserTypingStatus(users, currentUser.id, FALSE)
          /\ timers' = timers \o simulateResponse(currentUser, users, messages, now)
          /\ localReactions' = Rendered(messages')
          /\ scrollRequested' = TRUE
     ELSE /\ r = 0
          /\ UNCHANGED << messages, users, timers, localReactions, scrollRequested >>
  /\ last' = [Call("send") EXCEPT !.text = text]
  /\ UNCHANGED << loggedOut, statusChanges, earlyReturns, build, now, currentUser, showLoginModal, lastStatusUpdateRef, statusAnimationRef, frames >>
  /\ scrollTop' = ClampTop(scrollTop, localReactions')
  /\ ScrollListener(scrollTop' # scrollTop)
  /\ UNCHANGED << searchResults, currentSearchIndex >>
  /\ IF SendAccepts(text, currentUser) THEN Remounted(0) ELSE UNCHANGED inputs

(***************************************************************************)
(* Timer callbacks.  A timeout fires when its delay has elapsed; of the    *)
(* due ones the earliest fires first, registration order breaking ties.    *)
(***************************************************************************)
IsNextTimer(i) ==
  /\ i \in DOMAIN timers
  /\ timers[i].due <= now
  /\ \A j \in DOMAIN timers :
        \/ timers[j].due > timers[i].due
        \/ timers[j].due = timers[i].due /\ j >= i

RemoveAt(s, i) == SubSeq(s, 1, i - 1) \o SubSeq(s, i + 1, Len(s))

\* handleLogout's setTimeout(..., 150) callback (part_000)
LogoutTimer ==
  \E i \in DOMAIN timers :
    /\ IsNextTimer(i)
    /\ timers[i].kind = "logout"
    /\ currentUser' = NoUser
    /\ showLoginModal' = TRUE
    /\ timers' = RemoveAt(timers, i)
    /\ localReactions' = Rendered(messages)
    /\ last' = Call("logoutTimer")
      /\ UNCHANGED << loggedOut, statusChanges, earlyReturns, build, now, users, messages, lastStatusUpdateRef, statusAnimationRef, frames >>
      /\ scrollTop' = ClampTop(scrollTop, localReactions')
      /\ ScrollListener(scrollTop' # scrollTop)
      /\ UNCHANGED << scrollRequested, searchResults, currentSearchIndex >>
    /\ Inputs(TRUE)

\* simulateResponse's setTimeout(..., 1000) callback
TypingTimer ==
  \E i \in DOMAIN timers :
    /\ IsNextTimer(i)
    /\ timers[i].kind = "typing"
    /\ users' = updateUserTypingStatus(users, timers[i].uid, TRUE)
    /\ timers' = RemoveAt(timers, i)
    /\ localReactions' = Rendered(messages)
    /\ last' = [Call("typingTimer") EXCEPT !.uid = timers[i].uid, !.since = timers[i].sent]
      /\ UNCHANGED << loggedOut, statusChanges, earlyReturns, build, now, currentUser, messages, showLoginModal,
                    lastStatusUpdateRef, statusAnimationRef,
                    frames >>
      /\ scrollTop' = ClampTop(scrollTop, localReactions')
      /\ ScrollListener(scrollTop' # scrollTop)
      /\ UNCHANGED << scrollRequested, searchResults, currentSearchIndex >>
    /\ Inputs(TRUE)

\* simulateResponse's setTimeout(..., 3000) callback; messages.length is the
\* length of the log captured when the send was made (timers[i].count)
ReplyTimer ==
  \E i \in DOMAIN timers :
    /\ IsNextTimer(i)
    /\ timers[i].kind = "reply"
    /\ users' = updateUserTypingStatus(users, timers[i].uid, FALSE)
    /\ messages' = Append(messages,
                          NewMessage(ResponseMsgId(now), timers[i].uid,
                                     responses[(timers[i].count % Len(responses)) + 1], now))
    /\ timers' = RemoveAt(timers, i) \o
                 (IF timers[i].count % 3 = 0
                  THEN << [timers[i] EXCEPT !.kind = "react", !.due = now + ReactionDelayMs] >>
                  ELSE << >>)
    /\ localReactions' = Rendered(messages')
    /\ last' = [Call("replyTimer") EXCEPT !.uid = timers[i].uid, !.since = timers[i].sent]
      /\ UNCHANGED << loggedOut, statusChanges, earlyReturns, build, now, currentUser, showLoginModal, lastStatusUpdateRef, statusAnimationRef, frames >>
      /\ scrollTop' = ClampTop(scrollTop, localReactions')
      /\ ScrollListener(scrollTop' # scrollTop)
      /\ UNCHANGED << scrollRequested, searchResults, currentSearchIndex >>
    /\ Inputs(TRUE)

\* [...messages].reverse().find(msg => msg.senderId === currentUser.id) over
\* the captured log: the position of the last message of sender cu among the
\* first count messages, 0 when there is none
LastMessageOf(msgs, count, cu) ==
  LET own == {i \in 1 .. count : msgs[i].senderId = cu}
  IN  IF own = {} THEN 0 ELSE CHOOSE i \in own : \A j \in own : j <= i

\* simulateResponse's setTimeout(..., 1500) callback
ReactionTimer ==
  \E i \in DOMAIN timers :
    /\ IsNextTimer(i)
    /\ timers[i].kind = "react"
    /\ LET k == LastMessageOf(messages, timers[i].count, timers[i].cu)
       IN  /\ messages' =
                IF k = 0 THEN messages
                ELSE handleEmojiReaction(messages, messages[k].id,
                                         emojis[(Len(messages[k].text) % Len(emojis)) + 1])
           /\ last' = [Call("reactionTimer") EXCEPT
                         !.idx = k, !.uid = timers[i].uid, !.since = timers[i].sent]
    /\ timers' = RemoveAt(timers, i)
      /\ UNCHANGED << loggedOut, statusChanges, earlyReturns, build, now, currentUser, users, showLoginModal, lastStatusUpdateRef, statusAnimationRef, frames,
                    localReactions >>
      /\ scrollTop' = ClampTop(scrollTop, localReactions')
      /\ ScrollListener(scrollTop' # scrollTop)
      /\ UNCHANGED << scrollRequested, searchResults, currentSearchIndex >>
    /\ Inputs(FALSE)

\* the clock advances, never past a pending timeout: by TickStep while the
\* user is active (the first MaxActive ms), and to the next pending timeout
Tick(d) ==
  /\ d > 0
  /\ \/ d = TickStep /\ now + d <= Epoch + MaxActive
     \/ \E i \in DOMAIN timers : d = timers[i].due - now
     \/ now + d \in InputDues
  /\ \A i \in DOMAIN timers : now + d <= timers[i].due
  /\ \A due \in InputDues : now + d <= due
  /\ now' = now + d
  /\ last' = Call("tick")
  /\ UNCHANGED << loggedOut, statusChanges, earlyReturns, build, currentUser, users, messages, showLoginModal,
                  lastStatusUpdateRef, statusAnimationRef, frames, timers, localReactions >>
  /\ scrollTop' = ClampTop(scrollTop, localReactions')
  /\ ScrollListener(scrollTop' # scrollTop)
  /\ UNCHANGED << scrollRequested, searchResults, currentSearchIndex >>
  /\ Inputs(FALSE)

(***************************************************************************)
(* Scroll-Anchor Controller.  The element the listener and the handlers    *)
(* measure is taken to be the scrolling chat container.  restoreScroll of  *)
(* handleEmojiReaction is registered after its `if (!currentUser) return`, *)
(* which the handler never passes (its currentUser is the one of the first *)
(* render), so no restoreScroll timeout is ever pending.                   *)
(***************************************************************************)
\* the distances from the bottom the user scrolls to
ScrollDistances == {0, ScrollThresholdPx - 1, ScrollThresholdPx, 2 * ScrollThresholdPx}

\* the user scrolls the chat container to distance d from the bottom
UserScroll(d) ==
  LET target == ClampTop(ScrollMax(localReactions) - d, localReactions) IN
  /\ UserActive
  /\ target # scrollTop
  /\ ScrollTo(target, FALSE)
  /\ last' = [Call("scroll") EXCEPT !.distance = ScrollMax(localReactions) - target]
  /\ UNCHANGED << build, now, currentUser, users, messages, showLoginModal,
                  lastStatusUpdateRef, statusAnimationRef, frames, timers,
                  scrollRequested, searchResults, currentSearchIndex,
                  statusChanges, earlyReturns, loggedOut >>

\* variant: the affordance flag is left as it is
handleScrollToBottom_KeepsAffordance ==
  /\ UserActive
  /\ shouldAutoScroll' = TRUE
  /\ scrollRequested' = TRUE
  /\ localReactions' = IF ~shouldAutoScroll THEN Rendered(messages) ELSE localReactions
  /\ scrollTop' = ClampTop(scrollTop, localReactions')
  /\ measured' = 0 - 1
  /\ last' = [Call("jumpToBottom") EXCEPT !.shown = showScrollToBottom]
  /\ UNCHANGED << build, now, currentUser, users, messages, showLoginModal,
                  lastStatusUpdateRef, statusAnimationRef, frames, timers,
                  showScrollToBottom, searchResults, currentSearchIndex,
                  statusChanges, earlyReturns, loggedOut >>
  /\ Inputs(~shouldAutoScroll)

\* handleScrollToBottom: setShouldAutoScroll(true); scrollToBottom();
\* setShowScrollToBottom(false)
handleScrollToBottom ==
  /\ UserActive
  /\ shouldAutoScroll' = TRUE
  /\ showScrollToBottom' = FALSE
  /\ scrollRequested' = TRUE
  /\ localReactions' = IF ~shouldAutoScroll \/ showScrollToBottom
                       THEN Rendered(messages) ELSE localReactions
  /\ scrollTop' = ClampTop(scrollTop, localReactions')
  /\ measured' = 0 - 1
  /\ last' = [Call("jumpToBottom") EXCEPT !.shown = showScrollToBottom]
  /\ UNCHANGED << build, now, currentUser, users, messages, showLoginModal,
                  lastStatusUpdateRef, statusAnimationRef, frames, timers,
                  searchResults, currentSearchIndex, statusChanges, earlyReturns, loggedOut >>
  /\ Inputs(~shouldAutoScroll \/ showScrollToBottom)

\* the requestAnimationFrame callback of scrollToBottom:
\* messagesEndRef.current.scrollIntoView({ behavior: "smooth", block: "end" });
\* the callbacks of several requests do the same and run in the same frame.
\* A smooth scroll that starts 150 px or more above the bottom reports
\* positions that are not at the bottom on its way
ScrollFrame ==
  /\ scrollRequested
  /\ scrollRequested' = FALSE
  /\ IF scrollTop # ScrollMax(localReactions)
     THEN ScrollTo(ScrollMax(localReactions), ~IsAtBottom(scrollTop, localReactions))
     ELSE /\ UNCHANGED << localReactions, scrollTop, shouldAutoScroll, showScrollToBottom >>
          /\ measured' = 0 - 1
          /\ Inputs(FALSE)
  /\ last' = Call("scrollFrame")
  /\ UNCHANGED << build, now, currentUser, users, messages, showLoginModal,
                  lastStatusUpdateRef, statusAnimationRef, frames, timers,
                  searchResults, currentSearchIndex, statusChanges, earlyReturns, loggedOut >>

(***************************************************************************)
(* Search (part_000).                                                      *)
(***************************************************************************)
\* String.prototype.includes
Includes(text, query) ==
  \E i \in 0 .. (Len(text) - Len(query)) : SubSeq(text, i + 1, i + Len(query)) = query

\* variant: the texts are compared as written
SearchMatches_CaseSensitive(msgs, query) ==
  SelectSeq(msgs, LAMBDA m : Includes(m.text, query))

\* variant: the results are copies of the matches with the text in lower case
SearchMatches_LowersText(msgs, query) ==
  LET found == SelectSeq(msgs, LAMBDA m : Includes(ToLowerCase(m.text), ToLowerCase(query)))
  IN  [k \in DOMAIN found |-> [found[k] EXCEPT !.text = ToLowerCase(@)]]

\* performSearch: messages.filter((message) =>
\*   message.text.toLowerCase().includes(query.toLowerCase()))
SearchMatches(msgs, query) ==
  SelectSeq(msgs, LAMBDA m : Includes(ToLowerCase(m.text), ToLowerCase(query)))

\* variant: a query of spaces is searched like any other
SearchIsBlank_Never(query) == query = << >>

\* performSearch: !query.trim()
SearchIsBlank(query) == Trim(query) = << >>

\* document.getElementById(`message-${id}`): the first view with that id
PositionOf(msgs, id) ==
  CHOOSE i \in DOMAIN msgs : msgs[i].id = id /\ \A j \in 1 .. (i - 1) : msgs[j].id # id

\* scrollIntoView({ behavior: "smooth", block: "center" }) on the view of the
\* message with that id, in the layout of the render the handler causes
Reveal(id) ==
  /\ scrollTop' = IF \E i \in DOMAIN messages : messages[i].id = id
                  THEN CenterTop(PositionOf(messages, id), localReactions')
                  ELSE ClampTop(scrollTop, localReactions')
  /\ ScrollListener(scrollTop' # scrollTop)

\* the queries typed into the search box
SearchQueries ==
  { << >>, <<" ">>, <<"t","H","e">>, <<"h","e","l","p">>, <<"z","z">> }

\* performSearch(query), called by the handler or callback op of SearchInput;
\* setSearchResults is given a new array, so ChatApp renders
performSearch(query, op) ==
  /\ UNCHANGED << build, now, currentUser, users, messages, showLoginModal,
                  lastStatusUpdateRef, statusAnimationRef, frames, timers,
                  scrollRequested, statusChanges, earlyReturns, loggedOut >>
  /\ localReactions' = Rendered(messages)
  /\ IF SearchIsBlank(query)
     THEN /\ searchResults' = << >>
          /\ currentSearchIndex' = 0 - 1
          /\ scrollTop' = ClampTop(scrollTop, localReactions')
          /\ ScrollListener(scrollTop' # scrollTop)
     ELSE /\ searchResults' = SearchMatches(messages, query)
          /\ currentSearchIndex' = IF Len(searchResults') > 0 THEN 0 ELSE 0 - 1
          /\ IF Len(searchResults') > 0
             THEN Reveal(searchResults'[1].id)
             ELSE /\ scrollTop' = ClampTop(scrollTop, localReactions')
                  /\ ScrollListener(scrollTop' # scrollTop)
  /\ Inputs(TRUE)
  /\ last' = [Call(op) EXCEPT !.query = query, !.prior = currentSearchIndex]

\* SearchInput calls performSearch with a query: the search bar is rendered
\* when currentUser is set
Search(query) ==
  /\ build = "part_000"
  /\ UserActive
  /\ currentUser # NoUser
  /\ performSearch(query, "search")

\* variant: next stops at the last match
NewSearchIndex_NoWrap(index, n, direction) ==
  IF direction = "next"
  THEN (IF index + 1 < n THEN index + 1 ELSE index)
  ELSE (IF index - 1 < 0 THEN n - 1 ELSE index - 1)

\* navigateSearch: newIndex
NewSearchIndex(index, n, direction) ==
  IF direction = "next"
  THEN (index + 1) % n
  ELSE (IF index - 1 < 0 THEN n - 1 ELSE index - 1)

Directions == {"prev", "next"}

\* navigateSearch
Navigate(direction) ==
  /\ build = "part_000"
  /\ UserActive
  /\ currentUser # NoUser
  /\ UNCHANGED << build, now, currentUser, users, messages, showLoginModal,
                  lastStatusUpdateRef, statusAnimationRef, frames, timers,
                  scrollRequested, searchResults, statusChanges, earlyReturns, loggedOut >>
  /\ IF Len(searchResults) = 0
     THEN /\ UNCHANGED << currentSearchIndex, localReactions, scrollTop,
                          shouldAutoScroll, showScrollToBottom >>
          /\ measured' = 0 - 1
          /\ Inputs(FALSE)
     ELSE /\ currentSearchIndex' =
               NewSearchIndex(currentSearchIndex, Len(searchResults), direction)
          /\ localReactions' = IF currentSearchIndex' # currentSearchIndex
                               THEN Rendered(messages) ELSE localReactions
          /\ Reveal(searchResults[currentSearchIndex' + 1].id)
          /\ Inputs(currentSearchIndex' # currentSearchIndex)
  /\ last' = LET goesOn == /\ last.op = "navigate"
                            /\ last.direction = direction
                            /\ last.steps < Len(searchResults)
              IN [Call("navigate") EXCEPT
                    !.direction = direction, !.prior = currentSearchIndex,
                    !.steps = IF goesOn THEN last.steps + 1 ELSE 1,
                    !.start = IF goesOn THEN last.start ELSE currentSearchIndex]

(***************************************************************************)
(* The input components.  A change of the message box runs ChatInput's     *)
(* handleLocalTyping; a change of the search box runs SearchInput's        *)
(* handleInputChange.  Both keep their state locally, so these handlers do *)
(* not make ChatApp render.  SearchInput's own isTyping flag (the dots in  *)
(* the search box) is left out.                                            *)
(***************************************************************************)
\* what a step that touches neither log nor viewport leaves unchanged
InputStepFrame ==
  /\ UNCHANGED << build, now, currentUser, users, messages, showLoginModal,
                  lastStatusUpdateRef, statusAnimationRef, frames, timers,
                  localReactions, shouldAutoScroll, showScrollToBottom, scrollTop,
                  scrollRequested, searchResults, currentSearchIndex,
                  statusChanges, earlyReturns, loggedOut >>
  /\ measured' = 0 - 1

\* ChatInput.handleLocalTyping, called by onChange when the text changed
handleLocalTyping ==
  /\ UserActive
  /\ IF currentUser = NoUser
     THEN UNCHANGED inputs
     ELSE /\ localIsTyping' = TRUE
          /\ localTypingTimeoutRef' = now + LocalTypingMs
          /\ UNCHANGED << unmountedTimeouts, localSearchQuery, typingTimeoutRef >>
  /\ last' = Call("type")
  /\ InputStepFrame

\* the timeout of handleLocalTyping, in the mounted ChatInput
LocalTypingTimeout ==
  /\ localTypingTimeoutRef # 0
  /\ localTypingTimeoutRef <= now
  /\ localIsTyping' = FALSE
  /\ localTypingTimeoutRef' = 0
  /\ UNCHANGED << unmountedTimeouts, localSearchQuery, typingTimeoutRef >>
  /\ last' = Call("localTypingTimeout")
  /\ InputStepFrame

\* the timeout of handleLocalTyping of a ChatInput that was unmounted since:
\* setLocalIsTyping(false) on it has no effect
UnmountedTypingTimeout ==
  /\ \E due \in unmountedTimeouts :
       /\ due <= now
       /\ unmountedTimeouts' = unmountedTimeouts \ {due}
  /\ UNCHANGED << localIsTyping, localTypingTimeoutRef, localSearchQuery, typingTimeoutRef >>
  /\ last' = Call("unmountedTypingTimeout")
  /\ InputStepFrame

\* SearchInput.handleInputChange: setLocalSearchQuery(value); handleTyping().
\* handleTyping is the one of the render before the change, so the timeout it
\* registers holds the localSearchQuery of before the change
handleInputChange(value) ==
  /\ build = "part_000"
  /\ UserActive
  /\ currentUser # NoUser
  /\ value # localSearchQuery
  /\ localSearchQuery' = value
  /\ typingTimeoutRef' = [due |-> now + SearchDebounceMs, query |-> localSearchQuery]
  /\ UNCHANGED << localIsTyping, localTypingTimeoutRef, unmountedTimeouts >>
  /\ last' = [Call("searchType") EXCEPT !.query = value]
  /\ InputStepFrame

\* SearchInput.handleKeyDown with Enter: clearTimeout(typingTimeoutRef.current);
\* onSearch(localSearchQuery)
handleKeyDown ==
  /\ build = "part_000"
  /\ UserActive
  /\ currentUser # NoUser
  /\ performSearch(localSearchQuery, "searchEnter")

\* the timeout of SearchInput.handleTyping: onSearch(localSearchQuery) with the
\* onSearch and the localSearchQuery of the render that created handleTyping
SearchTypingTimeout ==
  /\ typingTimeoutRef # NoTimeout
  /\ typingTimeoutRef.due <= now
  /\ performSearch(typingTimeoutRef.query, "searchTimeout")

Next ==
  \/ \E name \in LoginNames : Login(name)
  \/ Logout
  \/ \E text \in SendTexts, r \in Rands : Send(text, r)
  \/ \E idx \in ClickPositions, emoji \in ClickEmojis : EmojiClick(idx, emoji)
  \/ \E status \in Statuses : changeUserStatus(status) /\ UNCHANGED earlyReturns
  \/ StatusFrame
  \/ LogoutTimer
  \/ TypingTimer
  \/ ReplyTimer
  \/ ReactionTimer
  \/ ScrollFrame
  \/ \E d \in {TickStep} \cup {timers[i].due - now : i \in DOMAIN timers} : Tick(d)

Spec == Init /\ [][Next]_vars

\* the browser delivers every timeout: a due callback runs, and when none is
\* due the clock reaches the next due time
TimeoutDelivered ==
  \/ LogoutTimer
  \/ TypingTimer
  \/ ReplyTimer
  \/ ReactionTimer
  \/ \E d \in {timers[i].due - now : i \in DOMAIN timers} : Tick(d)

\* the session with one name, one text and one status to ask for
LiveNext ==
  \/ \E name \in {n \in LoginNames : LoginAccepts(n)} : Login(name)
  \/ Logout
  \/ \E text \in {x \in SendTexts : Trim(x) # << >>} : Send(text, 0)
  \/ changeUserStatus("busy") /\ UNCHANGED earlyReturns
  \/ StatusFrame
  \/ LogoutTimer
  \/ TypingTimer
  \/ ReplyTimer
  \/ ReactionTimer
  \/ ScrollFrame
  \/ \E d \in {TickStep} \cup {timers[i].due - now : i \in DOMAIN timers} : Tick(d)

LiveSpec == Init /\ [][LiveNext]_vars /\ WF_vars(TimeoutDelivered)

(***************************************************************************)
(* The viewport: a session in which the user scrolls the chat container,   *)
(* reacts and sends while the replies arrive.                              *)
(***************************************************************************)
\* the message views clicked: the first carries reactions of two other
\* participants, the second carries none
ScrollClickPositions == {1, 2}

ScrollNext ==
  \/ \E name \in {n \in LoginNames : LoginAccepts(n)} : Login(name)
  \/ \E text \in {x \in SendTexts : Trim(x) # << >>} : Send(text, 0)
  \/ \E idx \in ScrollClickPositions : EmojiClick(idx, "thumbsup")
  \/ \E d \in ScrollDistances : UserScroll(d)
  \/ handleScrollToBottom
  \/ ScrollFrame
  \/ TypingTimer
  \/ ReplyTimer
  \/ ReactionTimer
  \/ \E d \in {TickStep} \cup {timers[i].due - now : i \in DOMAIN timers} : Tick(d)

ScrollSpec == Init /\ [][ScrollNext]_vars

(***************************************************************************)
(* Search: a session of the build that has the search box.                 *)
(***************************************************************************)
SearchInit == Init /\ build = "part_000"

SearchNext ==
  \/ \E name \in {n \in LoginNames : LoginAccepts(n)} : Login(name)
  \/ \E text \in {x \in SendTexts : Trim(x) # << >>} : Send(text, 0)
  \/ \E query \in SearchQueries : Search(query)
  \/ \E direction \in Directions : Navigate(direction)
  \/ ScrollFrame
  \/ TypingTimer
  \/ ReplyTimer
  \/ ReactionTimer
  \/ \E d \in {TickStep} \cup {timers[i].due - now : i \in DOMAIN timers} : Tick(d)

SearchSpec == SearchInit /\ [][SearchNext]_vars

(***************************************************************************)
(* The input components: a session in which the user types into the        *)
(* message box, sends and asks for a status, and one in which the user      *)
(* types into the search box and sends.                                    *)
(***************************************************************************)
TypingNext ==
  \/ \E name \in {n \in LoginNames : LoginAccepts(n)} : Login(name)
  \/ \E text \in {x \in SendTexts : Trim(x) # << >>} : Send(text, 0)
  \/ handleLocalTyping
  \/ LocalTypingTimeout
  \/ UnmountedTypingTimeout
  \/ changeUserStatus("busy") /\ UNCHANGED earlyReturns
  \/ StatusFrame
  \/ TypingTimer
  \/ ReplyTimer
  \/ ReactionTimer
  \/ ScrollFrame
  \/ \E d \in {TickStep} \cup {timers[i].due - now : i \in DOMAIN timers}
                 \cup {due - now : due \in InputDues} : Tick(d)

TypingSpec == Init /\ [][TypingNext]_vars

\* the search box, in the build that has it
DebounceNext ==
  \/ \E name \in {n \in LoginNames : LoginAccepts(n)} : Login(name)
  \/ \E text \in {x \in SendTexts : Trim(x) # << >>} : Send(text, 0)
  \/ \E value \in SearchQueries : handleInputChange(value)
  \/ handleKeyDown
  \/ SearchTypingTimeout
  \/ TypingTimer
  \/ ReplyTimer
  \/ ReactionTimer
  \/ ScrollFrame
  \/ \E d \in {TickStep} \cup {timers[i].due - now : i \in DOMAIN timers}
                 \cup {due - now : due \in InputDues} : Tick(d)

DebounceSpec == SearchInit /\ [][DebounceNext]_vars

(***************************************************************************)
(* The status throttle: a session of status requests, which keeps the      *)
(* history of the requests that returned early.                            *)
(***************************************************************************)
\* why changeUserStatus(status) returns early, "no" when it does not
EarlyReturn(status) ==
  IF currentUser = NoUser THEN "session"
  ELSE IF currentUser.status = status THEN "same"
  ELSE IF now - lastStatusUpdateRef < StatusThrottleMs THEN "throttled"
  ELSE "no"

StatusRequest(status) ==
  /\ changeUserStatus(status)
  /\ earlyReturns' = IF statusChanges' # statusChanges
                     THEN [since |-> {}, before |-> earlyReturns.since]
                     ELSE [earlyReturns EXCEPT !.since = @ \cup {EarlyReturn(status)}]

ThrottleNext ==
  \/ \E name \in {n \in LoginNames : LoginAccepts(n)} : Login(name)
  \/ \E status \in Statuses : StatusRequest(status)
  \/ StatusFrame
  \/ \E d \in {TickStep} : Tick(d)

ThrottleSpec == Init /\ [][ThrottleNext]_vars

(***************************************************************************)
(* The Response Simulator over the rosters it can be given: the seeded     *)
(* roster, and the same participants with the first, the second or both of *)
(* them offline.                                                           *)
(***************************************************************************)
Rosters ==
  { [i \in DOMAIN mockUsers |->
       IF i \in away THEN [mockUsers[i] EXCEPT !.status = "offline"] ELSE mockUsers[i]] :
    away \in SUBSET {1, 2} }

SimulatorInit == \E roster \in Rosters : InitWith(roster)

SimulatorNext ==
  \/ \E name \in {n \in LoginNames : LoginAccepts(n)} : Login(name)
  \/ \E text \in {x \in SendTexts : Trim(x) # << >>} : Send(text, 0)
  \/ TypingTimer
  \/ ReplyTimer
  \/ ReactionTimer
  \/ ScrollFrame
  \/ \E d \in {TickStep} \cup {timers[i].due - now : i \in DOMAIN timers} : Tick(d)

SimulatorSpec == SimulatorInit /\ [][SimulatorNext]_vars

(***************************************************************************)
(* The claims.  A step is told by the call it records: last' is the        *)
(* handler call or callback of the step, with its arguments.               *)
(***************************************************************************)
ValidText == <<" ","H","e","l","p"," ">>
ValidName == <<" ","A","l"," "," ","B"," ">>

\* C1: a send with a non-empty trimmed text, made while a local participant
\* is set, appends exactly one message to the end of the log; the message
\* carries the text as given, the local participant as sender, an empty
\* reaction map and delivery status "sent"
C1_SendAppendsOneMessage ==
  [][ (last'.op = "send" /\ currentUser # NoUser /\ Trim(last'.text) # << >>)
        => /\ Len(messages') = Len(messages) + 1
           /\ SubSeq(messages', 1, Len(messages)) = messages
           /\ messages'[Len(messages')].text = last'.text
           /\ messages'[Len(messages')].senderId = currentUser.id
           /\ messages'[Len(messages')].reactions = NoReactions
           /\ messages'[Len(messages')].status = "sent" ]_vars

C1_Witness ==
  /\ last.op = "send"
  /\ last.text = ValidText
  /\ currentUser # NoUser
  /\ Len(messages) = Len(mockMessages) + 1
  /\ messages[Len(messages)].text = ValidText
  /\ messages[Len(messages)].senderId = currentUser.id

C3_SendWithoutSession ==
  [][ (last'.op = "send" /\ (currentUser = NoUser \/ loggedOut))
        => /\ messages' = messages
           /\ users' = users
           /\ timers' = timers ]_vars

\* C4 as the specification states it: when the logged-in participant p
\* toggles emoji e on an existing message on which p's reaction is absent or
\* another emoji, the message's reactions map e to p afterwards, and no
\* other participant's reaction and no other message changes
C4_ToggleSetsReaction ==
  [][ ( /\ last'.op = "react"
        /\ currentUser # NoUser
        /\ \/ currentUser.id \notin DOMAIN messages[last'.idx].reactions
           \/ messages[last'.idx].reactions[currentUser.id] # last'.emoji )
        => /\ currentUser.id \in DOMAIN messages'[last'.idx].reactions
           /\ messages'[last'.idx].reactions[currentUser.id] = last'.emoji
           /\ \A u \in DOMAIN messages[last'.idx].reactions \ {currentUser.id} :
                /\ u \in DOMAIN messages'[last'.idx].reactions
                /\ messages'[last'.idx].reactions[u] = messages[last'.idx].reactions[u]
           /\ \A i \in DOMAIN messages : i # last'.idx => messages'[i] = messages[i] ]_vars

\* C5: when the logged-in participant had no reaction on a message, two
\* toggles of the same emoji in a row leave the message's reactions as they
\* were before the first, in the message view and in the log
C5_ToggleTwiceRestores ==
  (last.op = "react" /\ last.twice /\ currentUser # NoUser
     /\ currentUser.id \notin DOMAIN last.first)
    => /\ localReactions[last.idx] = last.first
       /\ messages[last.idx].reactions = last.first

C5_Witness ==
  /\ last.op = "react"
  /\ last.twice
  /\ last.idx = 1
  /\ currentUser # NoUser
  /\ currentUser.id \notin DOMAIN last.first
  /\ currentUser.id \in DOMAIN last.before
  /\ last.before[currentUser.id] = last.emoji
  /\ localReactions[1] = mockMessages[1].reactions

\* an id no message of the log has
UnknownMsgId == SendMsgId(0, 0)

\* C6: a toggle made while no participant is logged in changes neither the
\* log nor the message view and raises nothing; and at every toggle, the
\* same toggle naming a message id the log does not hold leaves the log as
\* it is
C6_ToggleSilentNoOp ==
  [][ /\ (last'.op = "react" /\ currentUser = NoUser)
         => /\ messages' = messages
            /\ localReactions' = localReactions
            /\ last'.raised = "none"
      /\ last'.op = "react"
         => /\ \A i \in DOMAIN messages : messages[i].id # UnknownMsgId
            /\ handleEmojiReaction(messages, UnknownMsgId, last'.emoji) = messages
            /\ ReactionUpdater(messages, currentUser.id, UnknownMsgId, last'.emoji)
                 = messages ]_vars

C6_Witness ==
  /\ last.op = "react"
  /\ currentUser = NoUser
  /\ LoginCount = 1
  /\ localReactions = Rendered(messages)

\* C7: a status request made less than 300 ms after the last accepted one is
\* dropped: it leaves the throttle timestamp, the pending frame, the roster
\* and the local participant as they were.  A request for another status made
\* 300 ms or more after the last accepted one is accepted: it becomes the
\* pending commit and its time the throttle timestamp.  Only an accepted
\* request moves the timestamp or leaves a pending commit, and a status only
\* changes by the commit of an accepted request
C7_StatusThrottle ==
  [][ /\ (last'.op = "setStatus" /\ now - lastStatusUpdateRef < 300)
         => UNCHANGED << lastStatusUpdateRef, statusAnimationRef, frames,
                         users, currentUser >>
      /\ ( /\ last'.op = "setStatus"
           /\ now - lastStatusUpdateRef >= 300
           /\ currentUser # NoUser
           /\ currentUser.status # last'.status )
         => /\ lastStatusUpdateRef' = now
            /\ frames' # << >>
            /\ frames'[Len(frames')].status = last'.status
            /\ frames'[Len(frames')].uid = currentUser.id
      /\ lastStatusUpdateRef' # lastStatusUpdateRef
         => /\ last'.op = "setStatus"
            /\ now - lastStatusUpdateRef >= 300
      /\ \A f \in Range(frames') \ Range(frames) :
           /\ last'.op = "setStatus"
           /\ now - lastStatusUpdateRef >= 300
           /\ f.status = last'.status
      /\ \A i \in DOMAIN users :
           users'[i].status # users[i].status
             => /\ last'.op = "statusFrame"
                /\ frames # << >>
                /\ users'[i].status = Head(frames).status ]_vars

C7_Witness ==
  /\ last.op = "setStatus"
  /\ currentUser # NoUser
  /\ last.status # currentUser.status
  /\ lastStatusUpdateRef > 0
  /\ now - lastStatusUpdateRef > 0
  /\ now - lastStatusUpdateRef < 300
  /\ frames = << >>

\* C8: an accepted status request changes neither the roster nor the local
\* participant; it cancels the commit that was pending and leaves its own as
\* the only pending one, which the next frame callback applies to the local
\* participant and to the roster.  At most one commit is pending at any time
C8_StatusDeferredToFrame ==
  [][ /\ last'.op = "setStatus"
         => /\ users' = users
            /\ currentUser' = currentUser
            /\ (currentUser # NoUser /\ currentUser.status # last'.status
                  /\ now - lastStatusUpdateRef >= 300)
                 => /\ Len(frames') = 1
                    /\ frames'[1].status = last'.status
                    /\ statusAnimationRef' = frames'[1].id
      /\ last'.op = "statusFrame"
         => /\ currentUser # NoUser => currentUser'.status = Head(frames).status
            /\ \A i \in DOMAIN users :
                 users[i].id = Head(frames).uid
                   => users'[i].status = Head(frames).status
            /\ frames' = << >>
      /\ Len(frames') <= 1 ]_vars

C8_Witness ==
  /\ last.op = "setStatus"
  /\ last.cancelled # 0
  /\ Len(frames) = 1
  /\ frames[1].status = last.status
  /\ frames[1].id = statusAnimationRef
  /\ currentUser # NoUser
  /\ currentUser.status = "online"
  /\ statusChanges = 2

\* C9: a login with a name that is not empty after trimming creates a
\* participant of that trimmed name with status online and isTyping false,
\* whose id is made of the lower-cased name without white space and of the
\* time, appends it to the roster and makes it the local participant; every
\* send of a non-empty trimmed text is accepted from then on
C9_LoginCreatesParticipant ==
  [][ (last'.op = "login" /\ Trim(last'.name) # << >>)
        => /\ Len(users') = Len(users) + 1
           /\ SubSeq(users', 1, Len(users)) = users
           /\ users'[Len(users')].name = Trim(last'.name)
           /\ users'[Len(users')].status = "online"
           /\ users'[Len(users')].isTyping = FALSE
           /\ users'[Len(users')].id.t = now
           /\ \A k \in DOMAIN users'[Len(users')].id.n :
                /\ ~IsSpace(users'[Len(users')].id.n[k])
                /\ users'[Len(users')].id.n[k] \notin DOMAIN UpperToLower
           /\ currentUser' = users'[Len(users')]
           /\ \A text \in SendTexts :
                Trim(text) # << >> => SendAccepts(text, currentUser') ]_vars

C9_Witness ==
  /\ last.op = "login"
  /\ last.name = ValidName
  /\ currentUser # NoUser
  /\ currentUser.name = <<"A","l"," "," ","B">>
  /\ currentUser.id.n = <<"a","l","-","b">>
  /\ users[Len(users)] = currentUser
  /\ Len(users) = Len(mockUsers) + 1

C12_SimulatorStopsAfterLogout ==
  [][ (last'.op \in {"typingTimer", "replyTimer", "reactionTimer"}
       /\ currentUser = NoUser)
        => /\ users' = users
           /\ messages' = messages ]_vars

\* C13 as the specification states it: the frame callback of a status
\* change that fires while no local participant is present changes neither
\* the roster nor the local participant
C13_StatusCommitAfterLogout ==
  [][ (last'.op = "statusFrame" /\ currentUser = NoUser)
        => /\ users' = users
           /\ currentUser' = NoUser ]_vars


\* the longest log the bounds allow
MaxLogLen == Len(mockMessages) + 2 * MaxOps

\* the message at position k was just sent by the local participant, at a
\* clock value for which the respond decision is true and with another
\* participant online
SentToResponder(k) ==
  /\ last.op = "send"
  /\ Len(messages) = k
  /\ currentUser # NoUser
  /\ messages[k].senderId = currentUser.id
  /\ messages[k].id.tag = "msg"
  /\ messages[k].text = last.text
  /\ messages[k].timestamp = now
  /\ ShouldRespond(now)
  /\ RespondingUsers(users, currentUser) # << >>

\* a simulated reply follows the message at position k, sent by another
\* participant of the roster whose status is online
RepliedAfter(k) ==
  \E i \in (k + 1) .. Len(messages) :
    /\ messages[i].id.tag = "msg-response"
    /\ messages[i].senderId # messages[k].senderId
    /\ \E j \in DOMAIN users :
         users[j].id = messages[i].senderId /\ users[j].status = "online"

\* C14: when every timeout is delivered, a send made by the local
\* participant at a clock value whose second is a multiple of 3, with another
\* participant online, is followed by a simulated reply of another, online
\* participant, unless the session is logged out before
C14_ReplyArrives ==
  \A k \in (Len(mockMessages) + 1) .. MaxLogLen :
    SentToResponder(k) ~> (RepliedAfter(k) \/ currentUser = NoUser)

C14_Witness ==
  /\ last.op = "replyTimer"
  /\ currentUser # NoUser
  /\ loggedOut = FALSE
  /\ Len(messages) = Len(mockMessages) + 2
  /\ messages[Len(messages) - 1].senderId = currentUser.id
  /\ RepliedAfter(Len(messages) - 1)

\* a letter whatever its case
SameLetter(a, b) ==
  \/ a = b
  \/ a \in DOMAIN UpperToLower /\ UpperToLower[a] = b
  \/ b \in DOMAIN UpperToLower /\ UpperToLower[b] = a

\* text contains query, letters compared whatever their case
ContainsIgnoringCase(text, query) ==
  \E at \in 0 .. (Len(text) - Len(query)) :
    \A j \in 1 .. Len(query) : SameLetter(text[at + j], query[j])

\* the positions of the log whose text contains the query
MatchPositions(query) ==
  {i \in DOMAIN messages : ContainsIgnoringCase(messages[i].text, query)}

\* the k-th of a set of positions, in increasing order
NthOf(positions, k) ==
  CHOOSE i \in positions : Cardinality({j \in positions : j < i}) = k - 1

\* C15: a search with a query that is not empty or whitespace leaves as result
\* set exactly the messages of the current log whose text contains the query,
\* letters compared whatever their case, in log order, and the cursor on the
\* first of them (none when nothing matches); the result set and the cursor
\* before the search play no part.
C15_SearchFindsMatches ==
  [][ (last'.op = "search" /\ Trim(last'.query) # << >>) =>
        LET positions == MatchPositions(last'.query) IN
        /\ Len(searchResults') = Cardinality(positions)
        /\ \A k \in DOMAIN searchResults' :
             searchResults'[k] = messages[NthOf(positions, k)]
        /\ currentSearchIndex' = IF Len(searchResults') > 0 THEN 0 ELSE 0 - 1
        /\ messages' = messages ]_vars

\* reached: a search found several messages, one of them written in another
\* case than the query, after the cursor of an earlier search had moved on
C15_Witness ==
  /\ last.op = "search"
  /\ Len(searchResults) >= 2
  /\ \E k \in DOMAIN searchResults : ~Includes(searchResults[k].text, last.query)
  /\ \E k \in DOMAIN searchResults : searchResults[k].id.tag = "msg"
  /\ last.prior >= 1
  /\ currentSearchIndex = 0

\* C16: a search with an empty or whitespace-only query leaves an empty result
\* set and no cursor (-1, not 0), whatever they were before.
C16_BlankSearchClears ==
  [][ (last'.op = "search" /\ \A j \in DOMAIN last'.query : last'.query[j] = " ") =>
        /\ searchResults' = << >>
        /\ currentSearchIndex' = 0 - 1 ]_vars

\* reached: a whitespace query has cleared a result set that had a cursor
C16_Witness ==
  /\ last.op = "search"
  /\ last.query = << " " >>
  /\ last.prior >= 0
  /\ searchResults = << >>
  /\ currentSearchIndex = 0 - 1

\* C17: navigating an empty result set changes nothing (the cursor stays
\* none); otherwise next moves the cursor to (cursor + 1) mod n and prev to
\* (cursor - 1) mod n over the n results; n navigations in one direction bring
\* the cursor back to where it started; the result set is unchanged.
C17_NavigateWraps ==
  [][ last'.op = "navigate" =>
        LET n == Len(searchResults) IN
        /\ searchResults' = searchResults
        /\ n = 0 => currentSearchIndex' = currentSearchIndex /\ currentSearchIndex = 0 - 1
        /\ n > 0 /\ last'.direction = "next" =>
             currentSearchIndex' = (currentSearchIndex + 1) % n
        /\ n > 0 /\ last'.direction = "prev" =>
             currentSearchIndex' = (currentSearchIndex + n - 1) % n
        /\ n > 0 /\ last'.steps = n => currentSearchIndex' = last'.start ]_vars

\* reached: a round of next over three or more results ended where it started,
\* its last step going from the last match to the first
C17_Witness ==
  /\ last.op = "navigate"
  /\ last.direction = "next"
  /\ Len(searchResults) >= 3
  /\ last.steps = Len(searchResults)
  /\ last.prior = Len(searchResults) - 1
  /\ currentSearchIndex = 0
  /\ last.start = 0

\* reached: prev on the first match went to the last match
C17_WitnessPrev ==
  /\ last.op = "navigate"
  /\ last.direction = "prev"
  /\ Len(searchResults) >= 3
  /\ last.prior = 0
  /\ currentSearchIndex = Len(searchResults) - 1

\* reached: a navigation of an empty result set
C17_WitnessEmpty ==
  /\ last.op = "navigate"
  /\ searchResults = << >>
  /\ currentSearchIndex = 0 - 1

\* C18: a reaction toggled while the viewport is not at the bottom, changing
\* the content height by some amount, moves the scroll offset by that amount;
\* the offset is neither left where it was nor taken to the bottom.  (No
\* restoreScroll timeout is ever pending, so the offset the step leaves is the
\* one the viewport keeps.)
C18_ReactionKeepsAnchor ==
  [][ ( /\ last'.op = "react"
        /\ ~IsAtBottom(scrollTop, localReactions)
        /\ ScrollHeight(localReactions') # ScrollHeight(localReactions) ) =>
        scrollTop' = scrollTop + ScrollHeight(localReactions') - ScrollHeight(localReactions)
    ]_vars

\* C19: a jump to the bottom sets the at-bottom flag, clears the affordance
\* flag and requests a scroll to the end; the log and the roster are unchanged.
C19_JumpToBottom ==
  [][ last'.op = "jumpToBottom" =>
        /\ shouldAutoScroll' = TRUE
        /\ showScrollToBottom' = FALSE
        /\ scrollRequested' = TRUE
        /\ messages' = messages
        /\ users' = users ]_vars

\* reached: a jump made while the viewport was up and the affordance shown
C19_Witness ==
  /\ last.op = "jumpToBottom"
  /\ last.shown
  /\ shouldAutoScroll
  /\ ~showScrollToBottom
  /\ scrollRequested
  /\ ~IsAtBottom(scrollTop, localReactions)

DistanceFromBottom(top, local) == ScrollHeight(local) - top - ClientHeightPx

C21_WitnessBelow ==
  /\ last.op = "scroll"
  /\ measured = ScrollThresholdPx - 1
  /\ DistanceFromBottom(scrollTop, localReactions) = ScrollThresholdPx - 1
  /\ shouldAutoScroll
  /\ ~showScrollToBottom

\* the ids of the participants in the roster
RosterIds == {users[j].id : j \in DOMAIN users}

\* C22: in every state the reactions of every message of the log, and those
\* its view shows, are recorded under ids of participants in the roster.
C22_ReactionsOfRosterOnly ==
  /\ \A i \in DOMAIN messages : DOMAIN messages[i].reactions \subseteq RosterIds
  /\ \A i \in DOMAIN localReactions : DOMAIN localReactions[i] \subseteq RosterIds

\* reached: the reaction callback of the simulator ran for a message of a
\* participant who logged in
C22_Witness ==
  /\ last.op = "reactionTimer"
  /\ last.idx > 0
  /\ Len(users) > Len(mockUsers)
  /\ messages[last.idx].senderId \in RosterIds

\* C23: in every state the ids of the messages of the log are pairwise
\* distinct, also for two sends, or two simulated replies, made at the same
\* clock value.
C23_MessageIdsDistinct ==
  \A i, j \in DOMAIN messages : i # j => messages[i].id # messages[j].id

\* C24: in every state at most one typing timeout is pending for a
\* participant: a further reply cycle that chooses the same candidate replaces
\* the pending timeout, it does not add a second one.
C24_OneTypingTimerEach ==
  \A i, j \in DOMAIN timers :
    (i # j /\ timers[i].kind = "typing" /\ timers[j].kind = "typing") =>
      timers[i].uid # timers[j].uid

\* C25: the log is append-only: every step leaves each message of the log at
\* its position with its id, sender, text and time; a step adds at most one
\* message, at the end, and only a send or the reply callback of the
\* simulator adds one.
C25_LogAppendOnly ==
  [][ /\ Len(messages') \in {Len(messages), Len(messages) + 1}
      /\ \A i \in DOMAIN messages :
           /\ messages'[i].id = messages[i].id
           /\ messages'[i].senderId = messages[i].senderId
           /\ messages'[i].text = messages[i].text
           /\ messages'[i].timestamp = messages[i].timestamp
      /\ Len(messages') = Len(messages) + 1 => last'.op \in {"send", "replyTimer"} ]_vars

\* reached: a sent message and the simulated reply to it are in the log, and
\* the reaction callback of the simulator has run for the sent message
C25_Witness ==
  /\ last.op = "reactionTimer"
  /\ last.idx > Len(mockMessages)
  /\ \E i \in DOMAIN messages : messages[i].id.tag = "msg-response"
  /\ \A i \in DOMAIN mockMessages : messages[i] = mockMessages[i]

\* every participant of the roster is still in it after the step
RosterKept == \A i \in DOMAIN users : \E j \in DOMAIN users' : users'[j].id = users[i].id

\* C26: the roster never loses a participant, and in every state the ids of
\* its participants are pairwise distinct, also after logging in again with
\* the same name.
C26_RosterKeptIdsDistinct ==
  /\ [](\A i, j \in DOMAIN users : i # j => users[i].id # users[j].id)
  /\ [][RosterKept]_vars

\* no participant other than the local one is online
NoOtherOnline ==
  \A j \in DOMAIN users : users[j].id = currentUser.id \/ users[j].status # "online"

\* the step is a send that was accepted
SendAccepted == last'.op = "send" /\ Len(messages') = Len(messages) + 1

\* C27: a send made when the second of the clock is not a multiple of 3, or
\* when no participant other than the local one is online, schedules no
\* timeout, raises no typing flag and adds nothing but the sent message; a
\* timeout is scheduled only by a send that meets both conditions (or by the
\* callback of one so scheduled, or by a logout), a typing flag is raised only
\* by the typing callback, and a simulated message is added only by the reply
\* callback.
C27_NoCycleWithoutDecision ==
  [][ /\ (SendAccepted /\ (((now \div 1000) % 60) % 3 # 0 \/ NoOtherOnline)) =>
           /\ timers' = timers
           /\ \A j \in DOMAIN users : users'[j].isTyping => users[j].isTyping
           /\ messages'[Len(messages')].id.tag = "msg"
      /\ Len(timers') > Len(timers) =>
           \/ SendAccepted /\ ((now \div 1000) % 60) % 3 = 0 /\ ~NoOtherOnline
           \/ last'.op = "logout"
      /\ (\E i \in DOMAIN timers' : timers'[i].kind = "react"
                                     /\ \A k \in DOMAIN timers : timers[k] # timers'[i]) =>
           last'.op = "replyTimer"
      /\ (\E j \in DOMAIN users : users'[j].isTyping /\ ~users[j].isTyping) =>
           last'.op = "typingTimer"
      /\ (Len(messages') > Len(messages) /\ messages'[Len(messages')].id.tag = "msg-response") =>
           last'.op = "replyTimer" ]_vars

\* reached: a send at a second that is a multiple of 3, with no other
\* participant online, after which no timeout is pending
C27_Witness ==
  /\ last.op = "send"
  /\ messages[Len(messages)].id = SendMsgId(now, 0)
  /\ ((now \div 1000) % 60) % 3 = 0
  /\ NoOtherOnline
  /\ timers = << >>

\* reached: a send at a second that is not a multiple of 3, with other
\* participants online, after which no timeout is pending
C27_WitnessDecision ==
  /\ last.op = "send"
  /\ messages[Len(messages)].id = SendMsgId(now, 0)
  /\ ((now \div 1000) % 60) % 3 # 0
  /\ ~NoOtherOnline
  /\ timers = << >>

\* the pending timeouts of a kind that belong to the cycles started at s
PendingOf(kind, s) ==
  Cardinality({i \in DOMAIN timers : timers[i].kind = kind /\ timers[i].sent = s})

\* the cycles started at s: the sends made at s, when its second is a multiple
\* of 3 (in a session two seeded participants are online throughout)
CyclesStartedAt(s) ==
  IF ((s \div 1000) % 60) % 3 = 0
  THEN Cardinality({i \in DOMAIN messages :
                      messages[i].id.tag = "msg" /\ messages[i].timestamp = s})
  ELSE 0

\* the simulated replies of the cycles started at s
RepliesOf(s) ==
  Cardinality({i \in DOMAIN messages :
                 /\ messages[i].id.tag = "msg-response"
                 /\ messages[i].timestamp = s + ReplyDelayMs})

\* every cycle has its reply either pending or appended, once; its typing
\* timeout is pending only while its reply is; its reaction timeout is
\* pending only once its reply is appended
StagesOnce ==
  \A s \in {messages[i].timestamp : i \in DOMAIN messages} \cup
           {timers[i].sent : i \in {j \in DOMAIN timers : timers[j].kind # "logout"}} :
    /\ PendingOf("reply", s) + RepliesOf(s) = CyclesStartedAt(s)
    /\ PendingOf("typing", s) <= PendingOf("reply", s)
    /\ PendingOf("react", s) <= RepliesOf(s)

\* C28: the stages of a reply cycle come in order, each once: the typing
\* callback runs 1000 ms after the send, sets the candidate's typing flag and
\* finds the reply still pending; the reply callback runs 3000 ms after the
\* send, when the typing callback has run, clears the flag and appends the
\* reply; the reaction callback, if any, runs 1500 ms after the reply was
\* appended.
C28_StagesInOrder ==
  /\ []StagesOnce
  /\ [][ /\ last'.op = "typingTimer" =>
              /\ now = last'.since + TypingDelayMs
              /\ \A j \in DOMAIN users' :
                   users'[j].id = last'.uid => users'[j].isTyping
              /\ \E i \in DOMAIN timers' :
                   /\ timers'[i].kind = "reply"
                   /\ timers'[i].uid = last'.uid
                   /\ timers'[i].sent = last'.since
         /\ last'.op = "replyTimer" =>
              /\ now = last'.since + ReplyDelayMs
              /\ \A i \in DOMAIN timers' :
                   ~(timers'[i].kind = "typing" /\ timers'[i].sent = last'.since)
              /\ \A j \in DOMAIN users' :
                   users'[j].id = last'.uid => ~users'[j].isTyping
              /\ Len(messages') = Len(messages) + 1
              /\ messages'[Len(messages')].id.tag = "msg-response"
              /\ messages'[Len(messages')].senderId = last'.uid
              /\ messages'[Len(messages')].timestamp = now
         /\ last'.op = "reactionTimer" =>
              /\ now = last'.since + ReplyDelayMs + ReactionDelayMs
              /\ \E i \in DOMAIN messages :
                   /\ messages[i].id.tag = "msg-response"
                   /\ messages[i].senderId = last'.uid
                   /\ messages[i].timestamp = last'.since + ReplyDelayMs ]_vars

\* reached: a cycle has gone through all its stages, the reaction included,
\* and the simulator is idle again
C28_Witness ==
  /\ last.op = "reactionTimer"
  /\ now = last.since + ReplyDelayMs + ReactionDelayMs
  /\ RepliesOf(last.since) = 1
  /\ timers = << >>
  /\ \A j \in DOMAIN users : ~users[j].isTyping

\* the position in the log of the most recent message of sender cu, 0 when
\* the log holds none
MostRecentOf(cu) ==
  LET own == {j \in DOMAIN messages : messages[j].senderId = cu}
  IN  IF own = {} THEN 0 ELSE CHOOSE j \in own : \A l \in own : l <= j

\* C29: when the reaction callback of a reply cycle runs, the most recent
\* message of the log whose sender is the local participant of the cycle (the
\* message whose send started the cycle counts) gets a reaction toggled, with
\* the emoji at index (length of its text % number of emojis).
C29_ReactionOnLatestLocalMessage ==
  [][ last'.op = "reactionTimer" =>
        \A i \in DOMAIN timers :
          IsNextTimer(i) /\ MostRecentOf(timers[i].cu) # 0 =>
            LET k == MostRecentOf(timers[i].cu)
                emoji == emojis[(Len(messages[k].text) % Len(emojis)) + 1]
            IN  /\ Len(messages') = Len(messages)
                /\ \E u \in RosterIds \cup {timers[i].cu} :
                     messages'[k].reactions =
                       ToggleReaction(messages[k].reactions, u, emoji) ]_vars

\* the roster positions of the participants that are not the local one and
\* are online
Candidates ==
  {j \in DOMAIN users : users[j].id # currentUser.id /\ users[j].status = "online"}

\* the roster position of the candidate with n candidates before it
NthCandidate(n) ==
  CHOOSE j \in Candidates : Cardinality({l \in Candidates : l < j}) = n

\* C30: the timeouts a send registers carry, as the sender of the reply, the
\* participant at index (minute % number of candidates) of the roster filtered
\* in roster order to the participants that are not the local one and are
\* online; the reply appended by the reply callback has that sender.
C30_CandidateByMinute ==
  [][ /\ last'.op = "send" /\ Len(timers') > Len(timers) =>
           LET chosen == NthCandidate(((now \div 60000) % 60) % Cardinality(Candidates))
           IN  \A i \in (Len(timers) + 1) .. Len(timers') :
                 timers'[i].uid = users[chosen].id
      /\ last'.op = "replyTimer" =>
           messages'[Len(messages')].senderId = last'.uid ]_vars

\* reached: a send whose candidate is not the first of the filtered roster:
\* in minute 2, with three candidates (the two seeded ones and the record of
\* the participant that logged out), the third is chosen
C30_Witness ==
  /\ last.op = "send"
  /\ Cardinality(Candidates) = 3
  /\ \E i \in DOMAIN timers :
       /\ timers[i].kind = "reply"
       /\ timers[i].sent = now
       /\ timers[i].uid = users[NthCandidate(2)].id
       /\ timers[i].uid.tag = "user"

\* reached: the reply of such a cycle is appended with that sender
C30_WitnessReply ==
  /\ last.op = "replyTimer"
  /\ last.uid.tag = "user"
  /\ messages[Len(messages)].senderId = last.uid

\* what an accepted send does to the typing state apart from the timeouts of
\* unmounted inputs: the sender's isTyping and ChatInput's localIsTyping are
\* false, the timeout of the mounted ChatInput is cleared, and nobody else's
\* isTyping or status changes
SendClearsMountedTyping ==
  /\ \A j \in DOMAIN users' : users'[j].id = currentUser.id => ~users'[j].isTyping
  /\ ~localIsTyping'
  /\ localTypingTimeoutRef' = 0
  /\ Len(users') = Len(users)
  /\ \A j \in DOMAIN users :
       users[j].id # currentUser.id =>
         /\ users'[j].isTyping = users[j].isTyping
         /\ users'[j].status = users[j].status

\* holds: the part of C31 that does not concern unmounted inputs
C31_MountedPart == [][SendAccepted => SendClearsMountedTyping]_vars

\* C31: an accepted send leaves the sender's typing flag false and no local
\* typing timeout pending, and changes no other participant's isTyping or
\* status.
C31_SendClearsTyping ==
  [][SendAccepted => SendClearsMountedTyping /\ unmountedTimeouts' = {}]_vars

\* C32: the throttle window starts at the last request that passed: a request
\* that returns early (dropped by the throttle, or for a status that is the
\* current one) leaves the start where it was, and a request for another
\* status made 300 ms or more after the start passes.
C32_ThrottleWindow ==
  [][ /\ last'.op = "setStatus" =>
           /\ statusChanges' = statusChanges + 1 => lastStatusUpdateRef' = now
           /\ statusChanges' = statusChanges => lastStatusUpdateRef' = lastStatusUpdateRef
           /\ ( /\ currentUser # NoUser
                /\ currentUser.status # last'.status
                /\ now - lastStatusUpdateRef >= StatusThrottleMs )
                => statusChanges' = statusChanges + 1
      /\ last'.op # "setStatus" => lastStatusUpdateRef' = lastStatusUpdateRef ]_vars

\* reached: a request passes 300 ms after the one before it that passed, with
\* a request dropped by the throttle in between
C32_Witness ==
  /\ last.op = "setStatus"
  /\ statusChanges = 2
  /\ lastStatusUpdateRef = now
  /\ now = Epoch + StatusThrottleMs
  /\ "throttled" \in earlyReturns.before

\* reached: the same, with a request for the current status in between
C32_WitnessSame ==
  /\ last.op = "setStatus"
  /\ statusChanges = 2
  /\ lastStatusUpdateRef = now
  /\ now = Epoch + StatusThrottleMs
  /\ "same" \in earlyReturns.before

\* holds: a change of the search box leaves one timeout pending, due 1000 ms
\* later, and Enter searches for the text of the box and leaves none pending
C33_ReplaceAndEnter ==
  [][ /\ last'.op = "searchType" => typingTimeoutRef'.due = now + SearchDebounceMs
      /\ last'.op = "searchEnter" =>
           /\ last'.query = localSearchQuery
           /\ typingTimeoutRef' = NoTimeout ]_vars

\* fails as well: a pending debounced search goes away only by running, by a
\* further change of the box or by Enter
C33_PendingSearchRuns ==
  [][ typingTimeoutRef # NoTimeout /\ typingTimeoutRef' # typingTimeoutRef =>
        last'.op \in {"searchTimeout", "searchType", "searchEnter"} ]_vars

\* C33: a change of the search box replaces the pending timeout by one due
\* 1000 ms later; the search the timeout runs is made with the text of the box
\* as it stands then, that is after the last change; Enter searches for the
\* text of the box at once and leaves no timeout pending.
C33_DebouncedSearch ==
  [][ /\ last'.op = "searchType" => typingTimeoutRef'.due = now + SearchDebounceMs
      /\ last'.op = "searchTimeout" => last'.query = localSearchQuery
      /\ last'.op = "searchEnter" =>
           /\ last'.query = localSearchQuery
           /\ typingTimeoutRef' = NoTimeout ]_vars

\* C34: the cursor is -1 exactly when there are no results, and otherwise a
\* position of the result list; every result is a message of the log.
C34_SearchCursor ==
  /\ (currentSearchIndex = 0 - 1) <=> (searchResults = << >>)
  /\ searchResults # << >> =>
       currentSearchIndex \in 0 .. (Len(searchResults) - 1)
  /\ \A k \in DOMAIN searchResults :
       \E i \in DOMAIN messages : messages[i] = searchResults[k]

\* reached: a simulated reply arrives after a search with several results and
\* a step back from the first of them to the last
C34_Witness ==
  /\ last.op = "replyTimer"
  /\ Len(searchResults) >= 2
  /\ currentSearchIndex = Len(searchResults) - 1
  /\ Len(messages) >= Len(mockMessages) + 2

\* holds: the reaction callback removes or replaces no reaction entry, neither
\* in the log nor in a message view
C35_KeepsEntries ==
  [][ last'.op = "reactionTimer" =>
        /\ Len(messages') = Len(messages)
        /\ \A k \in DOMAIN messages :
             \A u \in DOMAIN messages[k].reactions :
               /\ u \in DOMAIN messages'[k].reactions
               /\ messages'[k].reactions[u] = messages[k].reactions[u]
        /\ localReactions' = localReactions ]_vars

\* C35: when the reaction callback has found a message of the local
\* participant, the message then carries a reaction under the id of the
\* responding candidate, and the entries of every other participant, the
\* local one included, are as before.
C35_ReactionUnderCandidateId ==
  [][ last'.op = "reactionTimer" /\ last'.idx # 0 =>
        LET before == messages[last'.idx].reactions
            after == messages'[last'.idx].reactions
        IN  /\ last'.uid \in DOMAIN after
            /\ \A u \in DOMAIN before \ {last'.uid} :
                 u \in DOMAIN after /\ after[u] = before[u] ]_vars

\* the messages appended by the Response Simulator, and its pending timeouts
ReplyCount ==
  Cardinality({i \in DOMAIN messages : messages[i].id.tag = "msg-response"})
PendingCount(kind) ==
  Cardinality({i \in DOMAIN timers : timers[i].kind = kind})

\* C36: the simulated replies in the log, together with the replies still
\* pending, are at most as many as the local sends; a reaction timeout is
\* registered by a reply callback only, one at most.
C36_OneReplyPerSend ==
  /\ [](ReplyCount + PendingCount("reply") <= SendCount)
  /\ [][ PendingCount("react")' <=
           PendingCount("react") + (IF last'.op = "replyTimer" THEN 1 ELSE 0) ]_vars

\* reached: two sends, each answered once, and no timeout pending
C36_Witness ==
  /\ SendCount = 2
  /\ ReplyCount = 2
  /\ timers = << >>
  /\ last.op \in {"replyTimer", "reactionTimer"}

\* the roster positions of the records with the local participant's id
LocalRecords == {j \in DOMAIN users : users[j].id = currentUser.id}

\* the roster record of the local participant is there once and has the
\* status of currentUser
LocalRecordAgrees ==
  currentUser # NoUser =>
    /\ Cardinality(LocalRecords) = 1
    /\ \A j \in LocalRecords : users[j].status = currentUser.status

\* a status request and its commit leave the log and the status of every
\* participant but the local one as they are
StatusOfLocalOnly ==
  last'.op \in {"setStatus", "statusFrame"} =>
    /\ messages' = messages
    /\ Len(users') = Len(users)
    /\ \A j \in DOMAIN users :
         users[j].id # currentUser.id => users'[j].status = users[j].status

\* fails as well: the second half of C37 on its own
C37_StatusOfLocalOnly == [][StatusOfLocalOnly]_vars

\* C37: while a local participant is set, the roster holds exactly one record
\* with its id, and the status of that record is the status of currentUser; a
\* status change changes the status of that participant only and leaves the
\* log as it is.
C37_LocalRecordAndStatus ==
  /\ []LocalRecordAgrees
  /\ [][StatusOfLocalOnly]_vars

\* C38: no message appended by the Response Simulator has a sender whose id
\* was created by a login.
C38_RepliesBySeededOnly ==
  \A i \in DOMAIN messages :
    messages[i].id.tag = "msg-response" => messages[i].senderId.tag # "user"

\* the reply timeouts pending for the participant with id u
PendingRepliesOf(u) ==
  {i \in DOMAIN timers : timers[i].kind = "reply" /\ timers[i].uid = u}

\* C39: a participant's isTyping is true only while a reply from that
\* participant is pending; so once no timeout of the simulator is pending,
\* nobody's isTyping is true.
C39_TypingOnlyWhileReplyPending ==
  /\ \A j \in DOMAIN users : users[j].isTyping => PendingRepliesOf(users[j].id) # {}
  /\ (\A i \in DOMAIN timers : timers[i].kind \notin {"typing", "reply"}) =>
       \A j \in DOMAIN users : ~users[j].isTyping

\* reached: the cycles of two sends made at different times overlapped with
\* the same candidate, both replies are appended and nobody is typing
C39_Witness ==
  /\ last.op = "replyTimer"
  /\ \A i \in DOMAIN timers : timers[i].kind \notin {"typing", "reply"}
  /\ \E a, b \in DOMAIN messages :
       /\ a < b
       /\ messages[a].id.tag = "msg-response"
       /\ messages[b].id.tag = "msg-response"
       /\ messages[a].senderId = messages[b].senderId
       /\ messages[a].timestamp < messages[b].timestamp
  /\ \A j \in DOMAIN users : ~users[j].isTyping

\* reached: a candidate is typing while two replies of it are pending
C39_WitnessOverlap ==
  \E j \in DOMAIN users :
    /\ users[j].isTyping
    /\ Cardinality(PendingRepliesOf(users[j].id)) = 2

=============================================================================
